---- MODULE Spec2Model ----
(***************************************************************************)
(* Model of the bdgr single-header codec (src/loco.c, lines 575-816):      *)
(* the 64-bit shift-register bit writer and reader, the Rice coder with    *)
(* tail escape, the residual fold, and the frame driver bdgr_encode /      *)
(* bdgr_header / bdgr_decode.                                              *)
(*                                                                         *)
(* A 64-bit register is a sequence of 64 bits; element 1 is bit 0 (the     *)
(* least significant bit), element 64 is bit 63.  The output buffer is the   *)
(* sequence of 64-bit words stored through the write pointer.              *)
(***************************************************************************)
EXTENDS Integers, Sequences, FiniteSets, TLC

VARIABLES
    pc,          \* position of the program
    debug,       \* TRUE: built with DEBUG (implore/swear are assert), FALSE: release
    data,        \* input frame of bdgr_encode, row-major
    w, h,        \* dimensions passed to bdgr_encode
    max_bytes,   \* size of the output buffer passed to bdgr_encode
    wr,          \* writer: [p, b64, count, mem, failed]
    ebits,       \* encoder: current Rice parameter (bits)
    eprediction, \* encoder: prediction
    es,          \* encoder: number of input samples consumed (s - data)
    eret,        \* value returned by bdgr_encode
    symlen,      \* history: number of bits pushed for each pixel
    ehist,       \* history: per pixel, the encoder's k, rice, prediction and bit position
    width, height, \* expected dimensions passed to bdgr_decode
    rd,          \* reader: [p, b64, count, failed]
    dw, dh,      \* decoder: dimensions read from the header
    dbits,       \* decoder: current Rice parameter (bits)
    dprediction, \* decoder: prediction
    dpix,        \* decoder: output buffer (bytes stored through d)
    dhist,       \* history: per pixel, the decoder's k, rice, q, prediction and bit position
    dret,        \* value returned by bdgr_decode
    hres,        \* <<*w, *h>> as set by bdgr_header
    past,        \* what the memory past the last word written holds
    test         \* inputs and results of the unit specifications

vars == <<pc, debug, data, w, h, max_bytes, wr, ebits, eprediction, es, eret,
          symlen, ehist, width, height, rd, dw, dh, dbits, dprediction, dpix, dhist, dret,
          hres, past, test>>

encVars == <<wr, ebits, eprediction, es, eret, symlen, ehist>>
decVars == <<width, height, rd, dw, dh, dbits, dprediction, dpix, dhist, dret, past>>
inVars  == <<debug, data, w, h, max_bytes>>

----------------------------------------------------------------------------
(* Bounds of the model *)

MaxDim == 4        \* largest width or height of a frame
MaxPixels == 4     \* largest number of pixels of a frame
MaxOps == 4        \* largest number of push_bits calls of the bit I/O unit

(* The sample values frames are built from.  Their differences give small *)
(* even and odd symbols (0, 7, 8, 9, 10, 17, 18), symbols that escape      *)
(* (238, 246) and the extreme residual -128 (r = 255).                     *)
PixelValues == {0, 5, 9, 128}

Dims == {d \in (1..MaxDim) \X (1..MaxDim) : d[1] * d[2] <= MaxPixels}

(* Bit counts of the push_bits calls of the bit I/O unit: 31 + 31 + 2 ends *)
(* on a word boundary, 31 + 31 + 31 straddles it *)
BitLens == {0, 2, 31}

(* Values pushed with n bits: the lowest and the highest bit alone *)
BitVals(n) == IF n = 0 THEN {0} ELSE {1, 2 ^ (n - 1)}

(* Number of bits in front of the symbol of the Rice coder unit: the       *)
(* symbol starts a word (0), follows the header (32), leaves 12, 11 or 2   *)
(* bits in the word *)
PreBits == {0, 32, 52, 53, 62}

(* Values an out-of-bounds or uninitialised 64-bit load can produce *)
JunkWords == {[i \in 1..64 |-> 0] \o <<>>, [i \in 1..64 |-> 1] \o <<>>}

(* Results __builtin_ctz / _BitScanForward can produce for a zero operand *)
CtzUndef == {0, 32}

----------------------------------------------------------------------------
(* Program constants *)

(* a cut-off so late that an escaped symbol takes 39 bits *)
bdgr_cut_off_late == 11 + 19

bdgr_cut_off == 11
bdgr_start_with_bits_wide == 7 + 2

bdgr_start_with_bits == 7

(* the least c with 2^c >= n *)
CeilLog2(n) == CHOOSE c \in 0..9 : 2 ^ c >= n /\ (c = 0 \/ 2 ^ (c - 1) < n)

(* a table filled with max(0, ceil(log2(r + 1)) - 1) *)
bdgr_k4rice_ceil ==
    [i \in 1..256 |-> IF CeilLog2(i) >= 1 THEN CeilLog2(i) - 1 ELSE 0]

bdgr_k4rice == <<
    0, 0, 1, 1, 1, 2, 2, 2, 2, 3, 3, 3, 3, 3, 3, 3, 3, 4, 4, 4, 4, 4, 4, 4, 4, 4, 4, 4, 4, 4, 4, 4,
    4, 5, 5, 5, 5, 5, 5, 5, 5, 5, 5, 5, 5, 5, 5, 5, 5, 5, 5, 5, 5, 5, 5, 5, 5, 5, 5, 5, 5, 5, 5, 5,
    5, 6, 6, 6, 6, 6, 6, 6, 6, 6, 6, 6, 6, 6, 6, 6, 6, 6, 6, 6, 6, 6, 6, 6, 6, 6, 6, 6, 6, 6, 6, 6,
    6, 6, 6, 6, 6, 6, 6, 6, 6, 6, 6, 6, 6, 6, 6, 6, 6, 6, 6, 6, 6, 6, 6, 6, 6, 6, 6, 6, 6, 6, 6, 6,
    6, 7, 7, 7, 7, 7, 7, 7, 7, 7, 7, 7, 7, 7, 7, 7, 7, 7, 7, 7, 7, 7, 7, 7, 7, 7, 7, 7, 7, 7, 7, 7,
    7, 7, 7, 7, 7, 7, 7, 7, 7, 7, 7, 7, 7, 7, 7, 7, 7, 7, 7, 7, 7, 7, 7, 7, 7, 7, 7, 7, 7, 7, 7, 7,
    7, 7, 7, 7, 7, 7, 7, 7, 7, 7, 7, 7, 7, 7, 7, 7, 7, 7, 7, 7, 7, 7, 7, 7, 7, 7, 7, 7, 7, 7, 7, 7,
    7, 7, 7, 7, 7, 7, 7, 7, 7, 7, 7, 7, 7, 7, 7, 7, 7, 7, 7, 7, 7, 7, 7, 7, 7, 7, 7, 7, 7, 7, 7, 7 >>

(* bdgr_k4rice[rice] with the C array's 0-based index *)
(* a lookup that reads the entry of rice - 1 *)
k4rice_zero(rice) == 0

k4rice_shifted(rice) == bdgr_k4rice[IF rice = 0 THEN 1 ELSE rice]

k4rice(rice) == bdgr_k4rice[rice + 1]

(* while ((1 << bits) < rice) { bits++; } *)
RECURSIVE bits_estimate_loop(_, _)
bits_estimate_loop(bits, rice) ==
    IF 2 ^ bits < rice THEN bits_estimate_loop(bits + 1, rice) ELSE bits

(* an estimate that decrements every nonzero count *)
bits_estimate_dec_all(rice) ==
    LET bits == bits_estimate_loop(0, rice)
    IN  IF bits > 0 THEN bits - 1 ELSE bits

(* the estimate the table was generated from: the loop, then the decrement *)
bits_estimate(rice) ==
    LET bits == bits_estimate_loop(0, rice)
    IN  IF bits > 1 THEN bits - 1 ELSE bits

(* the update of bits in the two-file variant of the codec: no table and   *)
(* no decrement *)
bits_estimate_bdgr(rice) ==
    IF rice = 0 THEN 0 ELSE bits_estimate_loop(0, rice)

----------------------------------------------------------------------------
(* 64-bit register arithmetic *)

Zeros(n) == [i \in 1..n |-> 0] \o <<>>

Zero64 == Zeros(64)

(* b64 >> n for 0 <= n <= 63: the low n bits drop out, zeros enter at the  *)
(* MSB end *)
shr(b64, n) == SubSeq(b64, n + 1, 64) \o Zeros(n)

(* (uint32_t)b64 & ((1U << n) - 1): the low n bits of b64 as an integer,   *)
(* 0 <= n <= 31 *)
RECURSIVE low_bits(_, _)
low_bits(b64, n) ==
    IF n = 0 THEN 0 ELSE low_bits(b64, n - 1) + b64[n] * 2 ^ (n - 1)

(* (byte)x : conversion of an int to uint8_t *)
byte(x) == x % 256

(* b64 >>= 1 *)
push_bit_0(b64) == Append(Tail(b64), 0)

(* b64 = (1ULL << 63) | (b64 >> 1) *)
(* a push that sets bit 62 instead of bit 63 *)
push_bit_1_bit62(b64) == SubSeq(b64, 2, 63) \o <<1, 0>>

push_bit_1(b64) == Append(Tail(b64), 1)

----------------------------------------------------------------------------
(* Bit writer.  end is the buffer size in 64-bit words; swear(p <= e) is   *)
(* an assert in a debug build and nothing in a release build; once an      *)
(* assertion has failed the process is gone and nothing more is written.   *)

end == max_bytes \div 8

NewWriter == [p |-> 0, b64 |-> Zero64, count |-> 0, mem |-> <<>>, failed |-> FALSE]

push_out(ws) ==
    IF ws.count + 1 = 64
    THEN [ws EXCEPT !.mem = Append(@, ws.b64), !.p = @ + 1, !.count = 0,
                    !.failed = debug /\ ~(ws.p + 1 <= end)]
    ELSE [ws EXCEPT !.count = @ + 1]

(* one iteration of the push loops: shift the bit in, then push_out *)
push_bit(ws, bit) ==
    IF ws.failed THEN ws
    ELSE push_out([ws EXCEPT !.b64 = IF bit = 1 THEN push_bit_1(@) ELSE push_bit_0(@)])

RECURSIVE push_bits(_, _, _)
push_bits(ws, val, bits) ==
    IF bits = 0 \/ ws.failed THEN ws
    ELSE push_bits(push_bit(ws, val % 2), val \div 2, bits - 1)

(* while (q > 0) { push_bit_0(b64); push_out(p, end, b64, count); q--; } *)
RECURSIVE push_zeros(_, _)
push_zeros(ws, q) ==
    IF q = 0 \/ ws.failed THEN ws ELSE push_zeros(push_bit(ws, 0), q - 1)

(* flush that stores the register even when it holds no bits *)
flush_always(ws) ==
    [ws EXCEPT !.b64 = shr(@, 64 - ws.count),
               !.mem = Append(@, shr(ws.b64, 64 - ws.count)),
               !.p = @ + 1]

(* if (count > 0) { b64 >>= (64 - count); *p++ = b64; } *)
flush(ws) ==
    IF ws.count > 0
    THEN [ws EXCEPT !.b64 = shr(@, 64 - ws.count),
                    !.mem = Append(@, shr(ws.b64, 64 - ws.count)),
                    !.p = @ + 1]
    ELSE ws

(* number of bits pushed so far *)
BitPos(ws) == 64 * ws.p + ws.count

----------------------------------------------------------------------------
(* Residual fold *)

(* a fold that leaves out the second step (delta >= 128 ? delta - 256) *)
fold_delta_unsigned(px, prediction) ==
    LET d0 == px - prediction
    IN  IF d0 < 0 THEN d0 + 256 ELSE d0

(* delta as folded by the encoder *)
fold_delta(px, prediction) ==
    LET d0 == px - prediction
        d1 == IF d0 < 0 THEN d0 + 256 ELSE d0
    IN  IF d1 >= 128 THEN d1 - 256 ELSE d1

fold_rice(delta) == IF delta >= 0 THEN delta * 2 ELSE -delta * 2 - 1

(* an unfold that forgets the -1 of the odd (negative) branch *)
unfold_delta_off_by_one(rice) == IF rice % 2 = 0 THEN rice \div 2 ELSE -(rice \div 2)

(* delta as unfolded by the decoder *)
unfold_delta(rice) == IF rice % 2 = 0 THEN rice \div 2 ELSE -(rice \div 2) - 1

----------------------------------------------------------------------------
(* Rice coder, encoder side *)

(* a Rice coder without the tail escape: the quotient is always unary *)
encode_rice_no_escape(ws, rice, bits) ==
    LET m == 2 ^ bits
        q == rice \div m
    IN  push_bits(push_bit(push_zeros(ws, q), 1), rice % m, bits)

(* a Rice coder whose escape prefix is one zero longer *)
encode_rice_long_escape(ws, rice, bits) ==
    LET m == 2 ^ bits
        q == rice \div m
    IN  IF q < bdgr_cut_off
        THEN push_bits(push_bit(push_zeros(ws, q), 1), rice % m, bits)
        ELSE push_bits(push_bit(push_zeros(ws, bdgr_cut_off + 1), 1), rice, 8)

(* a Rice coder whose escape test is off by one: q <= cut_off *)
encode_rice_late_escape(ws, rice, bits) ==
    LET m == 2 ^ bits
        q == rice \div m
    IN  IF q <= bdgr_cut_off
        THEN push_bits(push_bit(push_zeros(ws, q), 1), rice % m, bits)
        ELSE push_bits(push_bit(push_zeros(ws, bdgr_cut_off), 1), rice, 8)

encode_rice(ws, rice, bits) ==
    LET m == 2 ^ bits
        q == rice \div m
    IN  IF q < bdgr_cut_off
        THEN push_bits(push_bit(push_zeros(ws, q), 1), rice % m, bits)
        ELSE push_bits(push_bit(push_zeros(ws, bdgr_cut_off), 1), rice, 8)

----------------------------------------------------------------------------
(* Bit reader.  Words are loaded from the buffer the writer filled; a load *)
(* at or beyond the last word written yields whatever that memory holds.   *)
(* implore(b) is an assert in a debug build and nothing in a release build.*)

NewReader == [p |-> 0, b64 |-> Zero64, count |-> 0, failed |-> FALSE]

load(i) == IF i < Len(wr.mem) THEN wr.mem[i + 1] ELSE past

(* the number of bits the reader has consumed *)
ReadPos(rs) == 64 * rs.p - rs.count

pull_in(rs) ==
    IF rs.count = 0
    THEN [rs EXCEPT !.b64 = load(rs.p), !.p = @ + 1, !.count = 64]
    ELSE rs

(* the bit-by-bit branch of pull_bits: i bits left to read, the next one   *)
(* goes to bit n of v *)
RECURSIVE pull_bits_loop(_, _, _, _)
pull_bits_loop(rs, v, n, i) ==
    IF i = 0 \/ rs.failed THEN [rs |-> rs, v |-> v]
    ELSE IF debug /\ ~(rs.count > 0)
    THEN [rs |-> [rs EXCEPT !.failed = TRUE], v |-> v]
    ELSE pull_bits_loop(
            pull_in([rs EXCEPT !.b64 = shr(@, 1), !.count = @ - 1]),
            IF rs.b64[1] = 1 THEN v + 2 ^ n ELSE v,
            n + 1, i - 1)

pull_bits(rs, bits) ==
    IF rs.failed THEN [rs |-> rs, v |-> 0]
    ELSE IF rs.count >= bits
    THEN [rs |-> [rs EXCEPT !.b64 = shr(@, bits), !.count = @ - bits],
          v  |-> low_bits(rs.b64, bits)]
    ELSE pull_bits_loop(rs, 0, 0, bits)

----------------------------------------------------------------------------
(* Rice coder, decoder side *)

(* a scan that returns the index of the highest 1 among bits 0..31 *)
ctz_highest(b64, und) ==
    IF \E i \in 1..32 : b64[i] = 1
    THEN (CHOOSE i \in 1..32 : b64[i] = 1 /\ \A j \in (i + 1)..32 : b64[j] = 0) - 1
    ELSE und

(* ctz((uint32_t)b64): the index of the lowest 1 among bits 0..31; und is  *)
(* the result for a zero operand, which the intrinsic leaves undefined     *)
ctz(b64, und) ==
    IF \E i \in 1..32 : b64[i] = 1
    THEN (CHOOSE i \in 1..32 : b64[i] = 1 /\ \A j \in 1..(i - 1) : b64[j] = 0) - 1
    ELSE und

(* whether the count-trailing-zeros branch, if taken from rs, has a nonzero *)
(* operand *)
ctz_defined(rs) ==
    rs.count > bdgr_cut_off => \E i \in 1..32 : rs.b64[i] = 1

(* the for (;;) loop that reads the unary prefix one bit at a time; a     *)
(* loop that has met no 1 in the bits it started with (at most            *)
(* bdgr_cut_off) and a whole word more does not come back: it reads on    *)
(* through the memory behind the stream, or, with a negative count,       *)
(* through the zeros shifted into the register                            *)
RECURSIVE unary_loop(_, _)
unary_loop(rs, q) ==
    IF (debug /\ ~(rs.count > 0)) \/ q > 64 + bdgr_cut_off
    THEN [rs |-> [rs EXCEPT !.failed = TRUE], q |-> q]
    ELSE LET bit == rs.b64[1]
             r1  == pull_in([rs EXCEPT !.b64 = shr(@, 1), !.count = @ - 1])
         IN  IF bit = 1 THEN [rs |-> r1, q |-> q]
             ELSE unary_loop(r1, q + 1)

(* the unary prefix: count-trailing-zeros when more than bdgr_cut_off bits *)
(* are in the register, bit by bit otherwise *)
decode_unary(rs, und) ==
    LET r0 == pull_in(rs)
    IN  IF r0.count > bdgr_cut_off
        THEN IF debug /\ ~(\E i \in 1..32 : r0.b64[i] = 1)
             THEN [rs |-> [r0 EXCEPT !.failed = TRUE], q |-> 0]
             ELSE LET q == ctz(r0.b64, und)
                  IN  [rs |-> pull_in([r0 EXCEPT !.b64 = shr(@, q + 1),
                                                 !.count = @ - (q + 1)]),
                       q  |-> q]
        ELSE unary_loop(r0, 0)

(* one symbol: prefix, then bits remainder bits or the 8 raw bits *)
decode_rice(rs, bits, und) ==
    LET u == decode_unary(rs, und)
        t == IF u.q < bdgr_cut_off THEN pull_bits(u.rs, bits)
                                   ELSE pull_bits(u.rs, 8)
        rice == IF u.q < bdgr_cut_off THEN u.q * 2 ^ bits + t.v ELSE t.v
    IN  [rs   |-> [t.rs EXCEPT !.failed = @ \/ (debug /\ ~(0 <= rice /\ rice <= 255))],
         rice |-> rice,
         q    |-> u.q]

----------------------------------------------------------------------------
(* bdgr_encode *)

Up8(n) == 8 * ((n + 7) \div 8)

NoTest == [kind |-> "codec"]

(* nothing has run yet: the locals and results of every function *)
NotStarted ==
    /\ wr = NewWriter
    /\ ebits = 0 /\ eprediction = 0 /\ es = 0 /\ eret = 0
    /\ symlen = <<>> /\ ehist = <<>>
    /\ width = 0 /\ height = 0
    /\ rd = NewReader
    /\ dw = 0 /\ dh = 0 /\ dbits = 0 /\ dprediction = 0
    /\ dpix = <<>> /\ dhist = <<>> /\ dret = 0
    /\ hres = <<>>
    /\ past = Zero64

Init ==
    /\ pc = "start"
    /\ debug \in BOOLEAN
    /\ \E d \in Dims :
        /\ w = d[1]
        /\ h = d[2]
        /\ data \in [1..(d[1] * d[2]) -> PixelValues]
        /\ max_bytes \in {8, Up8(4 * d[1] * d[2])}
    /\ NotStarted
    /\ test = NoTest

(* a header that writes the height first *)
encode_header_swapped(ws, w_, h_) == push_bits(push_bits(ws, h_, 16), w_, 16)

(* the two 16-bit header fields, width first *)
encode_header(ws, w_, h_) == push_bits(push_bits(ws, w_, 16), h_, 16)

(* a predictor that is never updated *)
next_prediction_stale(px) == 0

(* prediction = px: the value just coded predicts the next one *)
next_prediction(px) == px

(* entry of bdgr_encode up to the pixel loop: the header *)
EncodeBegin ==
    /\ pc = "start"
    /\ IF debug /\ max_bytes % 8 # 0
       THEN /\ pc' = "aborted"
            /\ UNCHANGED <<wr, ebits, eprediction, es>>
       ELSE /\ pc' = "enc"
            /\ wr' = encode_header(NewWriter, w, h)
            /\ ebits' = bdgr_start_with_bits
            /\ eprediction' = 0
            /\ es' = 0
    /\ UNCHANGED <<inVars, eret, symlen, ehist, decVars, hres, test>>

(* one iteration of while (s < e) *)
EncodePixel ==
    /\ pc = "enc"
    /\ es < w * h
    /\ LET px    == data[es + 1]
           d0    == px - eprediction
           delta == fold_delta(px, eprediction)
           rice  == fold_rice(delta)
           sworn == /\ byte(eprediction + d0) = px
                    /\ -128 <= delta /\ delta <= 127
                    /\ 0 <= rice /\ rice <= 255
           ws    == encode_rice(wr, rice, ebits)
       IN  IF debug /\ ~sworn
           THEN /\ pc' = "aborted"
                /\ UNCHANGED <<wr, ebits, eprediction, es, symlen, ehist>>
           ELSE IF ws.failed
           THEN /\ pc' = "aborted"
                /\ wr' = ws
                /\ UNCHANGED <<ebits, eprediction, es, symlen, ehist>>
           ELSE /\ pc' = "enc"
                /\ wr' = ws
                /\ ebits' = k4rice(rice)
                /\ eprediction' = next_prediction(px)
                /\ es' = es + 1
                /\ symlen' = Append(symlen, BitPos(ws) - BitPos(wr))
                /\ ehist' = Append(ehist, [k |-> ebits, rice |-> rice,
                                           pred |-> eprediction,
                                           pos |-> BitPos(wr)])
    /\ UNCHANGED <<inVars, eret, decVars, hres, test>>

(* after the loop: flush the last bits and return the byte count *)
EncodeFlush ==
    /\ pc = "enc"
    /\ ~(es < w * h)
    /\ wr' = flush(wr)
    /\ eret' = 8 * wr'.p
    /\ pc' = "encoded"
    /\ UNCHANGED <<inVars, ebits, eprediction, es, symlen, ehist, decVars, hres, test>>

----------------------------------------------------------------------------
(* bdgr_header, called on the encoder's output *)

Header ==
    /\ pc = "encoded"
    /\ LET rw == pull_bits(NewReader, 16)
           rh == pull_bits(rw.rs, 16)
       IN  IF rh.rs.failed
           THEN /\ pc' = "aborted"
                /\ hres' = hres
           ELSE /\ pc' = "header_done"
                /\ hres' = <<rw.v, rh.v>>
    /\ UNCHANGED <<inVars, encVars, decVars, test>>

----------------------------------------------------------------------------
(* bdgr_decode, called on the encoder's output *)

(* the dimensions a caller may expect: those of the frame, the frame       *)
(* transposed, or a single row *)
Expected == {<<w, h>>, <<h, w>>, <<w * h, 1>>}

(* entry of bdgr_decode up to the pixel loop *)
DecodeBegin ==
    /\ pc = "encoded"
    /\ past' \in JunkWords
    /\ \E x \in Expected :
        LET r0 == pull_in(NewReader)
            rw == pull_bits(r0, 16)
            rh == pull_bits(rw.rs, 16)
        IN  /\ width' = x[1]
            /\ height' = x[2]
            /\ IF debug /\ (eret % 8 # 0 \/ rh.rs.failed
                            \/ ~(rw.v = x[1] /\ rh.v = x[2]))
               THEN /\ pc' = "aborted"
                    /\ rd' = rh.rs
                    /\ dw' = rw.v
                    /\ dh' = rh.v
                    /\ UNCHANGED <<dbits, dprediction, dpix>>
               ELSE /\ pc' = "dec"
                    /\ rd' = rh.rs
                    /\ dw' = rw.v
                    /\ dh' = rh.v
                    /\ dbits' = bdgr_start_with_bits
                    /\ dprediction' = 0
                    /\ dpix' = <<>>
    /\ UNCHANGED <<inVars, encVars, dhist, dret, hres, test>>

(* one iteration of while (d < end); a symbol above 255, which only a     *)
(* release build lets through, indexes bdgr_k4rice out of bounds: the run  *)
(* stops there as undefined.  ctz and nonzero record the branch taken for  *)
(* the prefix and whether (uint32_t)b64 had a 1 bit.                       *)
DecodePixel ==
    /\ pc = "dec"
    /\ Len(dpix) < dw * dh
    /\ \E und \in (IF ctz_defined(pull_in(rd)) THEN {0} ELSE CtzUndef) :
        LET t     == decode_rice(rd, dbits, und)
            delta == unfold_delta(t.rice)
            v     == byte(dprediction + delta)
        IN  IF t.rs.failed
            THEN /\ pc' = "aborted"
                 /\ rd' = t.rs
                 /\ UNCHANGED <<dbits, dprediction, dpix, dhist>>
            ELSE /\ pc' = IF t.rice > 255 THEN "undefined" ELSE "dec"
                 /\ rd' = t.rs
                 /\ dpix' = Append(dpix, v)
                 /\ dprediction' = next_prediction(v)
                 /\ dbits' = IF t.rice > 255 THEN dbits ELSE k4rice(t.rice)
                 /\ dhist' = Append(dhist, [k |-> dbits, rice |-> t.rice,
                                            q |-> t.q,
                                            pred |-> dprediction,
                                            pos |-> ReadPos(rd),
                                            ctz |-> pull_in(rd).count > bdgr_cut_off,
                                            nonzero |-> \E j \in 1..32 :
                                                            pull_in(rd).b64[j] = 1])
    /\ UNCHANGED <<inVars, encVars, width, height, dw, dh, dret, hres, past, test>>

(* after the loop: return w * h *)
DecodeReturn ==
    /\ pc = "dec"
    /\ ~(Len(dpix) < dw * dh)
    /\ dret' = dw * dh
    /\ pc' = "done"
    /\ UNCHANGED <<inVars, encVars, width, height, rd, dw, dh, dbits,
                   dprediction, dpix, dhist, hres, past, test>>

Next ==
    \/ EncodeBegin
    \/ EncodePixel
    \/ EncodeFlush
    \/ Header
    \/ DecodeBegin
    \/ DecodePixel
    \/ DecodeReturn

Spec == Init /\ [][Next]_vars

----------------------------------------------------------------------------
(* C1. Round trip: when bdgr_decode, given the dimensions the frame was    *)
(* encoded with, returns, the bytes it stored are the bytes of the frame.  *)
RoundTrip ==
    (pc = "done" /\ width = w /\ height = h) => (dpix = data /\ dret = w * h)

RoundTripWitness ==
    pc = "done" /\ width = w /\ height = h /\ Len(data) = MaxPixels
    /\ \E i \in 1..Len(data) : data[i] = 128

----------------------------------------------------------------------------
(* Bit I/O unit: push_bits calls, a flush, then a primed reader pulling    *)
(* the same bit counts.  test.ops are the <<value, bits>> pushed, test.got *)
(* the values pulled.                                                      *)

(* Byte-addressed packing, as the experimental file does it next to its    *)
(* own shift register: bit i of v goes to bit (pos + i) % 8 of byte        *)
(* (pos + i) / 8; the bit is cleared and set, whatever the byte held.      *)
byte_set_bit(b, bit_pos, bv) ==
    b - ((b \div 2 ^ bit_pos) % 2) * 2 ^ bit_pos + bv * 2 ^ bit_pos

RECURSIVE push_bits_bytes(_, _, _, _)
push_bits_bytes(output, pos, v, bits) ==
    IF bits = 0 THEN output
    ELSE push_bits_bytes(
            [output EXCEPT ![pos \div 8 + 1] = byte_set_bit(@, pos % 8, v % 2)],
            pos + 1, v \div 2, bits - 1)

(* what an output buffer may hold before it is written *)
ByteFills == {0, 255}

BitsInit ==
    /\ pc = "bits_push"
    /\ debug \in BOOLEAN
    /\ data = <<>> /\ w = 0 /\ h = 0
    /\ max_bytes = 8 * MaxOps
    /\ NotStarted
    /\ \E fill \in ByteFills :
        test = [kind |-> "bits", ops |-> <<>>, got |-> <<>>,
                output |-> [i \in 1..max_bytes |-> fill] \o <<>>, pos |-> 0]

BitsPush ==
    /\ pc = "bits_push"
    /\ Len(test.ops) < MaxOps
    /\ \E n \in BitLens : \E v \in BitVals(n) :
        /\ wr' = push_bits(wr, v, n)
        /\ test' = [test EXCEPT !.ops = Append(@, <<v, n>>),
                                !.output = push_bits_bytes(@, test.pos, v, n),
                                !.pos = @ + n]
    /\ pc' = IF wr'.failed THEN "aborted" ELSE "bits_push"
    /\ UNCHANGED <<inVars, ebits, eprediction, es, eret, symlen, ehist, decVars, hres>>

BitsFlush ==
    /\ pc = "bits_push"
    /\ wr' = flush(wr)
    /\ past' \in JunkWords
    /\ pc' = "bits_prime"
    /\ UNCHANGED <<inVars, ebits, eprediction, es, eret, symlen, ehist, width, height,
                   rd, dw, dh, dbits, dprediction, dpix, dhist, dret, hres, test>>

(* the reader loads the first word *)
BitsPrime ==
    /\ pc = "bits_prime"
    /\ rd' = pull_in(NewReader)
    /\ pc' = "bits_pull"
    /\ UNCHANGED <<inVars, encVars, width, height, dw, dh, dbits, dprediction,
                   dpix, dhist, dret, past, hres, test>>

BitsPull ==
    /\ pc = "bits_pull"
    /\ Len(test.got) < Len(test.ops)
    /\ LET t == pull_bits(rd, test.ops[Len(test.got) + 1][2])
       IN  /\ rd' = t.rs
           /\ IF t.rs.failed
              THEN pc' = "aborted" /\ test' = test
              ELSE pc' = "bits_pull" /\ test' = [test EXCEPT !.got = Append(@, t.v)]
    /\ UNCHANGED <<inVars, encVars, width, height, dw, dh, dbits, dprediction,
                   dpix, dhist, dret, past, hres>>

BitsNext == BitsPush \/ BitsFlush \/ BitsPrime \/ BitsPull

SpecBits == BitsInit /\ [][BitsNext]_vars

----------------------------------------------------------------------------
(* Rice coder unit: one symbol test.r is encoded with parameter test.k     *)
(* after test.pre zero bits and flushed; a reader that has loaded the      *)
(* first word and skipped the zero bits decodes it with the same parameter.*)

RiceInit ==
    /\ pc = "rice_encode"
    /\ debug \in BOOLEAN
    /\ data = <<>> /\ w = 0 /\ h = 0
    /\ max_bytes = 16
    /\ NotStarted
    /\ \E r \in 0..255, k \in 0..8, pre \in PreBits :
        test = [kind |-> "rice", r |-> r, k |-> k, pre |-> pre,
                nbits |-> 0, q |-> 0, got |-> 0]

(* the reader after its first load and after skipping n < 63 bits *)
Skip(n) ==
    LET a == IF n > 31 THEN 31 ELSE n
    IN  pull_bits(pull_bits(pull_in(NewReader), a).rs, n - a).rs

RiceEncode ==
    /\ pc = "rice_encode"
    /\ LET w0 == push_zeros(NewWriter, test.pre)
           w1 == encode_rice(w0, test.r, test.k)
       IN  /\ wr' = flush(w1)
           /\ test' = [test EXCEPT !.nbits = BitPos(w1) - BitPos(w0)]
    /\ past' \in JunkWords
    /\ pc' = "rice_decode"
    /\ UNCHANGED <<inVars, ebits, eprediction, es, eret, symlen, ehist, width, height,
                   rd, dw, dh, dbits, dprediction, dpix, dhist, dret, hres>>

RiceDecode ==
    /\ pc = "rice_decode"
    /\ \E und \in (IF ctz_defined(pull_in(Skip(test.pre))) THEN {0} ELSE CtzUndef) :
        LET t == decode_rice(Skip(test.pre), test.k, und)
        IN  /\ rd' = t.rs
            /\ IF t.rs.failed
               THEN pc' = "aborted" /\ test' = test
               ELSE pc' = "rice_done" /\ test' = [test EXCEPT !.got = t.rice, !.q = t.q]
    /\ UNCHANGED <<inVars, encVars, width, height, dw, dh, dbits, dprediction,
                   dpix, dhist, dret, past, hres>>

RiceNext == RiceEncode \/ RiceDecode

SpecRice == RiceInit /\ [][RiceNext]_vars

----------------------------------------------------------------------------
(* Fold unit: a pixel test.v is folded against a prediction test.p as in   *)
(* bdgr_encode and unfolded as in bdgr_decode.                             *)

FoldInit ==
    /\ pc = "fold"
    /\ debug \in BOOLEAN
    /\ data = <<>> /\ w = 0 /\ h = 0
    /\ max_bytes = 8
    /\ NotStarted
    /\ \E p \in 0..255, v \in 0..255 :
        test = [kind |-> "fold", p |-> p, v |-> v,
                d |-> 0, r |-> 0, ice |-> 0, x |-> 0]

FoldApply ==
    /\ pc = "fold"
    /\ LET d == fold_delta(test.v, test.p)
           r == fold_rice(d)
           ice == unfold_delta(r)
       IN  test' = [test EXCEPT !.d = d, !.r = r, !.ice = ice,
                                !.x = byte(test.p + ice)]
    /\ pc' = "fold_done"
    /\ UNCHANGED <<inVars, encVars, decVars, hres>>

FoldNext == FoldApply

SpecFold == FoldInit /\ [][FoldNext]_vars

----------------------------------------------------------------------------
(* Table unit: the entry of bdgr_k4rice for a residual test.r next to the  *)
(* estimates computed for the same residual.                               *)

K4Init ==
    /\ pc = "k4"
    /\ debug \in BOOLEAN
    /\ data = <<>> /\ w = 0 /\ h = 0
    /\ max_bytes = 8
    /\ NotStarted
    /\ \E r \in 0..255 :
        test = [kind |-> "k4", r |-> r, tab |-> 0, est |-> 0, est_bdgr |-> 0]

K4Apply ==
    /\ pc = "k4"
    /\ test' = [test EXCEPT !.tab = k4rice(test.r),
                            !.est = bits_estimate(test.r),
                            !.est_bdgr = bits_estimate_bdgr(test.r)]
    /\ pc' = "k4_done"
    /\ UNCHANGED <<inVars, encVars, decVars, hres>>

K4Next == K4Apply

SpecK4 == K4Init /\ [][K4Next]_vars

----------------------------------------------------------------------------
(* Frame size unit: the product w * h that bdgr_encode adds to its input   *)
(* pointer and bdgr_decode adds to its output pointer and returns.  Both   *)
(* operands are ints below 2^16, so the product is below 2^32; it is kept  *)
(* as two 16-bit limbs <<high, low>> because it need not fit an int.       *)

mul_limbs(a, b) ==
    LET x  == a * (b % 256)
        y  == a * (b \div 256)
        lo == (y % 256) * 256 + x
    IN  <<(y \div 256) + (lo \div 65536), lo % 65536>>

(* whether a product given by its limbs fits a 32-bit signed int *)
int_fits(limbs) == limbs[1] < 32768

(* the 32-bit two's complement reading of the product *)
int_wrap(limbs) ==
    IF int_fits(limbs) THEN limbs[1] * 65536 + limbs[2]
    ELSE (limbs[1] - 65536) * 65536 + limbs[2]

limbs_of(n) == <<n \div 65536, n % 65536>>

(* Signed overflow is undefined: a build either wraps the product to 32    *)
(* bits, or, where the product only offsets a pointer, keeps it in a wide  *)
(* register.                                                               *)
OverflowOutcomes == {"wrap", "wide"}

(* Widths and heights of the frame size unit: the ends of the documented   *)
(* range, powers of two and the integers around sqrt(2^31) *)
SizeDims == {1, 2, 255, 256, 4096, 32767, 32768, 46340, 46341, 65535}

SizeInit ==
    /\ pc = "size"
    /\ debug \in BOOLEAN
    /\ data = <<>>
    /\ w \in SizeDims /\ h \in SizeDims
    /\ max_bytes = 8
    /\ NotStarted
    /\ test = [kind |-> "size", exact |-> <<0, 0>>, consumed |-> <<0, 0>>,
                written |-> <<0, 0>>, ret |-> 0]

(* e = s + w * h; while (s < e): the number of pixels the loops visit, and *)
(* return w * h *)
SizeApply ==
    /\ pc = "size"
    /\ \E outcome \in (IF int_fits(mul_limbs(w, h)) THEN {"wrap"}
                                                   ELSE OverflowOutcomes) :
        LET p == mul_limbs(w, h)
            n == int_wrap(p)
            visited == IF outcome = "wide" THEN p
                       ELSE IF n > 0 THEN limbs_of(n) ELSE <<0, 0>>
        IN  test' = [test EXCEPT !.exact = p, !.consumed = visited,
                                 !.written = visited, !.ret = n]
    /\ pc' = "size_done"
    /\ UNCHANGED <<inVars, encVars, decVars, hres>>

SizeNext == SizeApply

SpecSize == SizeInit /\ [][SizeNext]_vars

----------------------------------------------------------------------------
(* The extended codec of src/t87/main.c: MED prediction, optional run mode *)
(* and near-lossless quantisation.  A frame is the row-major sequence of   *)
(* its bytes; the encoder works on it in place.  Sequences of bits stand   *)
(* for memory: bit n of a sequence is bit n mod 8 of byte n div 8.  The    *)
(* writer's buffer is given as much room as it asks for.                   *)

minimum(a, b) == IF a < b THEN a ELSE b

maximum(a, b) == IF a > b THEN a ELSE b

limit == 15

t87_start_with_bits == 3

(* sizeof(bio->data) and sizeof(bio->bits) * 8 *)
bitio_data_bytes == 4 * 1024

BITS == 8 * 8

(* log2n: the number of binary digits of v, 1 for v = 0 *)
RECURSIVE log2n_loop(_, _)
log2n_loop(k, v) == IF 2 ^ k <= v THEN log2n_loop(k + 1, v) ELSE k

log2n(v) == IF v = 0 THEN 1 ELSE log2n_loop(0, v)

(* A writing bitio_t: reg are the count bits held in bio->bits, buf the    *)
(* whole words stored in bio->data (bio->bytes = Len(buf) / 8), out what   *)
(* bio->write has been given and written the number of bytes of it; ok is  *)
(* FALSE once an assert has tripped in a debug build.                      *)
bitio_write_init ==
    [reg |-> <<>>, buf |-> <<>>, out |-> <<>>, written |-> 0, ok |-> TRUE]

bitio_write_1_bit(bio, v) ==
    LET reg == Append(bio.reg, v)
        buf == bio.buf \o reg
    IN  IF ~bio.ok THEN bio
        ELSE IF debug /\ ~(0 <= v /\ v <= 1 /\ Len(bio.reg) < BITS)
        THEN [bio EXCEPT !.ok = FALSE]
        ELSE IF Len(reg) < BITS THEN [bio EXCEPT !.reg = reg]
        ELSE IF Len(buf) \div 8 = bitio_data_bytes
        THEN [bio EXCEPT !.reg = <<>>, !.buf = <<>>, !.out = @ \o buf,
                         !.written = @ + Len(buf) \div 8]
        ELSE [bio EXCEPT !.reg = <<>>, !.buf = buf]

(* most significant of the n bits first *)
RECURSIVE bitio_write_loop(_, _, _)
bitio_write_loop(bio, v, n) ==
    IF n = 0 \/ ~bio.ok THEN bio
    ELSE bitio_write_loop(bitio_write_1_bit(bio, (v \div 2 ^ (n - 1)) % 2),
                          v, n - 1)

bitio_write_n_bits(bio, v, n) ==
    IF ~bio.ok THEN bio
    ELSE IF debug /\ ~(0 <= v /\ v <= 2 ^ n - 1 /\ 0 <= n /\ n < 32)
    THEN [bio EXCEPT !.ok = FALSE]
    ELSE bitio_write_loop(bio, v, n)

RECURSIVE pad_to_byte(_)
pad_to_byte(bits) == IF Len(bits) % 8 = 0 THEN bits ELSE pad_to_byte(Append(bits, 0))

(* if (bio->count > 0): the pending word is stored, (count + 7) / 8 of its *)
(* bytes are added to bio->bytes and bio->bytes bytes are written          *)
bitio_flush(bio) ==
    IF Len(bio.reg) > 0
    THEN [bio EXCEPT !.out = @ \o bio.buf \o pad_to_byte(bio.reg),
                     !.written = @ + Len(bio.buf) \div 8 + (Len(bio.reg) + 7) \div 8,
                     !.buf = <<>>]
    ELSE bio

(* the number of bits written so far *)
bitio_bits(bio) == Len(bio.out) + Len(bio.buf) + Len(bio.reg)

t87_encode_unary(bio, q) ==
    IF q >= limit
    THEN bitio_write_n_bits(
             bitio_write_1_bit(bitio_write_n_bits(bio, 2 ^ limit - 1, limit), 0),
             q, 8)
    ELSE bitio_write_1_bit(bitio_write_n_bits(bio, 2 ^ q - 1, q), 0)

t87_encode_entropy(bio, v, bits) ==
    LET m == 2 ^ bits
        q == v \div m
    IN  bitio_write_n_bits(t87_encode_unary(bio, q), v % m, bits)

(* A reading bitio_t over the bytes s that the reader holds, fewer than    *)
(* bitio_data_bytes: b64 is bio->bits, count and bytes as in the source, p *)
(* the index of the next word of bio->data, rdpos the reader's position,   *)
(* pos the number of bits taken, ok FALSE once an assert has tripped in a  *)
(* debug build.  bio->data is zero behind the bytes copied into it.        *)
t87_word(s, i) ==
    [j \in 1..64 |-> IF 64 * i + j <= Len(s) THEN s[64 * i + j] ELSE 0] \o <<>>

NewBitio ==
    [b64 |-> Zero64, count |-> 0, bytes |-> 0, p |-> 0, rdpos |-> 0,
     pos |-> 0, ok |-> TRUE, v |-> 0]

(* bitio_read with reader_read: copy what is left, load the first word *)
bitio_read(s, rs) ==
    LET k  == minimum(bitio_data_bytes, Len(s) \div 8 - rs.rdpos)
        k8 == minimum(k, 8)
    IN  IF debug /\ ~(k > 0) THEN [rs EXCEPT !.ok = FALSE]
        ELSE [rs EXCEPT !.b64 = t87_word(s, 0), !.p = 1, !.rdpos = @ + k,
                        !.count = k8 * 8, !.bytes = k - k8]

(* if (bio->count == 0): the next word of bio->data, or a new read *)
bitio_refill(s, rs) ==
    IF rs.count # 0 THEN rs
    ELSE IF rs.bytes > 0
    THEN [rs EXCEPT !.b64 = t87_word(s, rs.p), !.p = @ + 1,
                    !.bytes = @ - minimum(8, rs.bytes),
                    !.count = 8 * minimum(8, rs.bytes)]
    ELSE bitio_read(s, rs)

(* v = bits & 1; count--; bits >>= 1; pos++ *)
bitio_take_bit(rs) ==
    IF ~rs.ok THEN rs
    ELSE [rs EXCEPT !.v = rs.b64[1], !.count = @ - 1, !.b64 = shr(@, 1),
                    !.pos = @ + 1]

bitio_read_1_bit(s, rs) == bitio_take_bit(bitio_refill(s, rs))

(* v = (v << 1) | bit, with v the value gathered before the bit in rs *)
bitio_shift_in(v, rs) == [rs EXCEPT !.v = 2 * v + @]

RECURSIVE bitio_read_loop(_, _, _)
bitio_read_loop(s, rs, n) ==
    IF n = 0 \/ ~rs.ok THEN rs
    ELSE bitio_read_loop(s, bitio_shift_in(rs.v, bitio_read_1_bit(s, rs)), n - 1)

bitio_read_n_bits(s, rs, n) == bitio_read_loop(s, [rs EXCEPT !.v = 0], n)

(* for (;;) { bit = read; if (bit == 0) break; q++; } starting from q:     *)
(* read_ones reads the bit, read_ones_test is the body of the loop after it *)
RECURSIVE read_ones(_, _, _)
RECURSIVE read_ones_test(_, _, _)
read_ones_test(s, b, q) ==
    IF ~b.ok \/ b.v = 0 THEN [b EXCEPT !.v = q]
    ELSE read_ones(s, b, q + 1)

read_ones(s, rs, q) == read_ones_test(s, bitio_read_1_bit(s, rs), q)

(* what decode_unary does with the count u.v of ones it has read *)
decode_unary_limit(s, u) ==
    IF ~u.ok THEN u
    ELSE IF debug /\ ~(u.v <= limit) THEN [u EXCEPT !.ok = FALSE]
    ELSE IF u.v = limit THEN bitio_read_n_bits(s, u, 8)
    ELSE u

t87_decode_unary(s, rs) == decode_unary_limit(s, read_ones(s, rs, 0))

(* q * m + r, where r is the value in rs *)
decode_entropy_value(q, rs, n) == [rs EXCEPT !.v = q * 2 ^ n + @]

decode_entropy_rem(s, u, n) ==
    decode_entropy_value(u.v, bitio_read_n_bits(s, u, n), n)

t87_decode_entropy(s, rs, n) == decode_entropy_rem(s, t87_decode_unary(s, rs), n)

(* the gradient a + b - c taken wherever a row above and a sample to the   *)
(* left exist *)
prediction_gradient(x, y, a, b, c) ==
    IF y = 0 THEN (IF x = 0 THEN 0 ELSE a)
    ELSE IF x = 0 THEN b
    ELSE a + b - c

(* MED prediction *)
prediction(x, y, a, b, c) ==
    IF y = 0 THEN (IF x = 0 THEN 0 ELSE a)
    ELSE IF x = 0 THEN b
    ELSE IF c >= maximum(a, b) THEN minimum(a, b)
    ELSE IF c <= minimum(a, b) THEN maximum(a, b)
    ELSE a + b - c

(* line[x] and prev[x] of row y in a frame of width fw *)
line_at(frame, fw, y, x) == frame[y * fw + x + 1]

(* neighbours that are 0 wherever they lie outside the frame *)
neighbors_zero_outside(x, y, fw, frame) ==
    LET a == IF x = 0 THEN 0 ELSE line_at(frame, fw, y, x - 1)
        c == IF y = 0 \/ x = 0 THEN 0 ELSE line_at(frame, fw, y - 1, x - 1)
        b == IF y = 0 THEN 0 ELSE line_at(frame, fw, y - 1, x)
        d == IF y = 0 \/ x = fw - 1 THEN 0 ELSE line_at(frame, fw, y - 1, x + 1)
    IN  [a |-> a, b |-> b, c |-> c, d |-> d,
         d1 |-> d - b, d2 |-> b - c, d3 |-> c - a]

(*  c b d  *)
(*  a v    *)
neighbors(x, y, fw, frame) ==
    LET a == IF x = 0 THEN 0 ELSE line_at(frame, fw, y, x - 1)
        c == IF y = 0 \/ x = 0 THEN a ELSE line_at(frame, fw, y - 1, x - 1)
        b == IF y = 0 THEN a ELSE line_at(frame, fw, y - 1, x)
        d == IF y = 0 \/ x = fw - 1 THEN b ELSE line_at(frame, fw, y - 1, x + 1)
    IN  [a |-> a, b |-> b, c |-> c, d |-> d,
         d1 |-> d - b, d2 |-> b - c, d3 |-> c - a]

abs(n) == IF n < 0 THEN -n ELSE n

rle_mode(ns, lossy) ==
    abs(ns.d1) <= lossy /\ abs(ns.d2) <= lossy /\ abs(ns.d3) <= lossy

(* the run-count code that follows the run-mode flag *)
t87_encode_run(bio, count) ==
    IF count = 1
    THEN bitio_write_1_bit(bitio_write_1_bit(bio, 1), 0)
    ELSE IF count <= 5
    THEN bitio_write_n_bits(bitio_write_n_bits(bio, 6, 3), count - 2, 2)
    ELSE LET lb == log2n(count - 6)
         IN  bitio_write_n_bits(t87_encode_unary(bio, lb + 2), count - 6, lb)

(* decode_run, entered after the run-mode flag has been read as 1: the    *)
(* value added to what a count field holds, the long form after the bits  *)
(* 1 1, the test of the second bit and the test of the first *)
decode_run_count(rs, base) == [rs EXCEPT !.v = @ + base]

decode_run_long(s, lb) ==
    IF ~lb.ok THEN lb
    ELSE decode_run_count(bitio_read_n_bits(s, lb, lb.v - 2), 6)

decode_run_bit2(s, b2) ==
    IF ~b2.ok THEN b2
    ELSE IF b2.v = 0 THEN decode_run_count(bitio_read_n_bits(s, b2, 2), 2)
    ELSE decode_run_long(s, read_ones(s, b2, 3))

decode_run_bit1(s, b1) ==
    IF ~b1.ok \/ b1.v = 0 THEN [b1 EXCEPT !.v = 1]
    ELSE decode_run_bit2(s, bitio_read_1_bit(s, b1))

decode_run(s, rs) == decode_run_bit1(s, bitio_read_1_bit(s, rs))

(* a scan that stops at the end of the frame, not at the end of the row *)
RECURSIVE run_length_across(_, _, _, _, _, _)
run_length_across(frame, fw, y, x, last, lossy) ==
    IF y * fw + x < Len(frame) /\ abs(frame[y * fw + x + 1] - last) <= lossy
    THEN 1 + run_length_across(frame, fw, y, x + 1, last, lossy)
    ELSE 0

(* the number of samples from column x on that the while loop of           *)
(* encode_rle takes into the run *)
RECURSIVE run_length(_, _, _, _, _, _)
run_length(frame, fw, y, x, last, lossy) ==
    IF x < fw /\ abs(line_at(frame, fw, y, x) - last) <= lossy
    THEN 1 + run_length(frame, fw, y, x + 1, last, lossy)
    ELSE 0

(* count samples from column x on set to val *)
RECURSIVE fill_run(_, _, _, _, _, _)
fill_run(frame, fw, y, x, count, val) ==
    IF count = 0 THEN frame
    ELSE fill_run([frame EXCEPT ![y * fw + x + 1] = byte(val)],
                  fw, y, x + 1, count - 1, val)

(* the lossy adjustment of encode_delta *)
quantize(delta, predicted, lossy) ==
    LET l2p1 == lossy * 2 + 1
    IN  IF delta >= 0 THEN (lossy + delta) \div l2p1
                      ELSE -((lossy - delta) \div l2p1)

(* encode_delta at (x, y): the symbol written with parameter bits, the     *)
(* frame with the reconstructed value written back, and the new bits and   *)
(* last *)
encode_delta(en, ns, v) ==
    LET predicted == prediction(en.x, en.y, ns.a, ns.b, ns.c)
        d0    == byte(v) - byte(predicted)
        delta == IF en.lossy > 0 THEN quantize(d0, predicted, en.lossy) ELSE d0
        v1    == IF en.lossy > 0
                 THEN byte(predicted + delta * (en.lossy * 2 + 1))
                 ELSE v
        d1    == IF delta < 0 THEN delta + 256 ELSE delta
        d2    == IF d1 >= 128 THEN d1 - 256 ELSE d1
        rice  == fold_rice(d2)
    IN  [en EXCEPT
            !.frame = IF en.lossy > 0
                      THEN [@ EXCEPT ![en.y * w + en.x + 1] = v1] ELSE @,
            !.sworn = /\ byte(predicted + d0) = byte(v)
                      /\ -128 <= d2 /\ d2 <= 127
                      /\ 0 <= rice /\ rice <= 255,
            !.bio   = t87_encode_entropy(@, rice, en.bits),
            !.bits  = bits_estimate_loop(0, rice),
            !.last  = v1,
            !.rice  = rice,
            !.pred  = predicted]

(* encode_rle at (x, y): a run from column x on, or flag 0 and the sample *)
encode_rle(en, ns) ==
    LET count == run_length(en.frame, w, en.y, en.x, en.last, en.lossy)
    IN  IF count > 0
        THEN [en EXCEPT !.frame = fill_run(@, w, en.y, en.x, count, en.last),
                        !.bio = t87_encode_run(@, count),
                        !.x = @ + count - 1,
                        !.run = count]
        ELSE encode_delta([en EXCEPT !.bio = bitio_write_1_bit(@, 0)],
                          ns, line_at(en.frame, w, en.y, en.x))

(* Frames of the extended codec: dimensions that give inner pixels with    *)
(* all four neighbours, a second and third row, and a row long enough for  *)
(* runs of 6; sample values that make the three MED branches and, with the *)
(* largest step, a reconstruction above 255.  The long row is made of the  *)
(* two extreme values only, the six-pixel frame of the two lower values.   *)
ExtDims == {<<1, 1>>, <<2, 2>>, <<3, 2>>, <<1, 3>>, <<7, 1>>}

ExtValues == {0, 64, 255}

ExtValuesFor(d) ==
    IF d[1] * d[2] > 6 THEN {0, 255}
    ELSE IF d[1] * d[2] = 6 THEN {0, 64}
    ELSE ExtValues

LossyValues == {0, 1, 6}

T87Init ==
    /\ pc = "t87_start"
    /\ debug \in BOOLEAN
    /\ \E d \in ExtDims :
        /\ w = d[1]
        /\ h = d[2]
        /\ data \in [1..(d[1] * d[2]) -> ExtValuesFor(d)]
    /\ max_bytes = 8
    /\ NotStarted
    /\ \E rle \in BOOLEAN, lossy \in LossyValues :
        test = [kind |-> "t87", rle |-> rle, lossy |-> lossy,
                en |-> [frame |-> <<>>, bio |-> bitio_write_init, x |-> 0, y |-> 0,
                        bits |-> 0, last |-> 0, lossy |-> lossy, sworn |-> TRUE,
                        run |-> 0, rice |-> 0, pred |-> 0],
                stream |-> <<>>,
                de |-> [frame |-> <<>>, rs |-> NewBitio,
                        x |-> 0, y |-> 0, bits |-> 0, last |-> 0, w |-> 0,
                        h |-> 0, lossy |-> 0],
                ret |-> 0]

(* encode(): the context and the header *)
T87EncodeBegin ==
    /\ pc = "t87_start"
    /\ test' = [test EXCEPT
            !.en = [@ EXCEPT
                !.frame = data \o <<>>,
                !.bio = bitio_write_n_bits(
                            bitio_write_n_bits(
                                bitio_write_n_bits(bitio_write_init, w, 16), h, 16),
                            test.lossy, 8),
                !.last = -1,
                !.bits = t87_start_with_bits]]
    /\ pc' = "t87_enc"
    /\ UNCHANGED <<inVars, encVars, decVars, hres>>

(* the end of a row, when x has reached the width *)
t87_row_end_of(st, fw) ==
    IF st.x + 1 < fw THEN [st EXCEPT !.x = @ + 1]
    ELSE [st EXCEPT !.x = 0, !.y = @ + 1, !.last = -1,
                    !.bits = t87_start_with_bits]

t87_row_end(st) == t87_row_end_of(st, w)

(* one iteration of for (ctx.x ...) in encode_context *)
T87EncodeStep ==
    /\ pc = "t87_enc"
    /\ test.en.y < h
    /\ LET en == [test.en EXCEPT !.run = 0, !.sworn = TRUE, !.rice = 0, !.pred = 0]
           ns == neighbors(en.x, en.y, w, en.frame)
           in_run_mode == test.rle /\ en.last >= 0 /\ rle_mode(ns, en.lossy)
           e1 == IF in_run_mode THEN encode_rle(en, ns)
                 ELSE encode_delta(en, ns, line_at(en.frame, w, en.y, en.x))
       IN  /\ ehist' = Append(ehist, [x |-> en.x, y |-> en.y, k |-> en.bits,
                                      pos |-> bitio_bits(en.bio), mode |-> in_run_mode,
                                      run |-> e1.run, rice |-> e1.rice,
                                      pred |-> e1.pred, last |-> en.last,
                                      scanned |-> IF in_run_mode
                                                  THEN en.x + e1.run ELSE en.x])
           /\ IF ~e1.bio.ok \/ (debug /\ ~e1.sworn)
              THEN pc' = "aborted" /\ test' = [test EXCEPT !.en = e1]
              ELSE pc' = "t87_enc" /\ test' = [test EXCEPT !.en = t87_row_end(e1)]
    /\ UNCHANGED <<inVars, wr, ebits, eprediction, es, eret, symlen, decVars, hres>>

(* the read of ctx.line[ctx.x] in the condition of the while loop of       *)
(* encode_rle when the run has reached the end of the last row: the byte   *)
(* after the frame.  The read is undefined; it may stop the process, or    *)
(* give any value (T87EncodeStep, the value is not used).                  *)
T87EncodeFault ==
    /\ pc = "t87_enc"
    /\ test.en.y < h
    /\ LET en == test.en
           ns == neighbors(en.x, en.y, w, en.frame)
       IN  /\ test.rle /\ en.last >= 0 /\ rle_mode(ns, en.lossy)
           /\ en.y * w + en.x
                 + run_length(en.frame, w, en.y, en.x, en.last, en.lossy) >= w * h
    /\ pc' = "fault"
    /\ UNCHANGED <<inVars, test, encVars, decVars, hres>>

(* after the loops: bitio_flush, return the number of bytes written *)
T87EncodeFlush ==
    /\ pc = "t87_enc"
    /\ ~(test.en.y < h)
    /\ LET bio == bitio_flush(test.en.bio)
       IN  test' = [test EXCEPT !.en = [@ EXCEPT !.bio = bio],
                                !.stream = bio.out,
                                !.ret = bio.written]
    /\ pc' = "t87_encoded"
    /\ UNCHANGED <<inVars, encVars, decVars, hres>>

(* decode() up to the loops, called as d8x4_test calls it: on the bytes    *)
(* encode returned, with the dimensions and loss given to encode and a     *)
(* zeroed output buffer *)
T87DecodeBegin ==
    /\ pc = "t87_encoded"
    /\ LET s  == test.stream
           rw == bitio_read_n_bits(s, bitio_read(s, NewBitio), 16)
           rh == bitio_read_n_bits(s, rw, 16)
           rl == bitio_read_n_bits(s, rh, 8)
       IN  /\ test' = [test EXCEPT !.de = [@ EXCEPT
                          !.frame = [i \in 1..(w * h) |-> 0] \o <<>>,
                          !.rs = rl, !.w = rw.v, !.h = rh.v, !.lossy = rl.v,
                          !.bits = t87_start_with_bits, !.last = -1]]
           /\ pc' = IF ~rl.ok \/ (debug /\ ~(rw.v = w /\ rh.v = h
                                            /\ rl.v = test.lossy))
                    THEN "aborted" ELSE "t87_dec"
    /\ UNCHANGED <<inVars, encVars, decVars, hres>>

(* the run branch of decode, cnt being the reader after decode_run: the   *)
(* samples filled, inside telling whether they all lie in the output       *)
decode_fill(de, cnt) ==
    [de |-> [de EXCEPT
                !.rs = cnt,
                !.frame = IF cnt.ok /\ de.y * de.w + de.x + cnt.v <= Len(de.frame)
                          THEN fill_run(@, de.w, de.y, de.x, cnt.v, de.last)
                          ELSE @,
                !.x = @ + cnt.v - 1],
     inside |-> de.y * de.w + de.x + cnt.v <= Len(de.frame),
     sworn |-> de.x + cnt.v <= de.w,
     run |-> cnt.v, rice |-> 0, pred |-> 0]

(* the sample branch of decode, sym being the reader after decode_entropy *)
decode_sample(de, predicted, sym) ==
    [de |-> [de EXCEPT
                !.rs = sym,
                !.frame = IF sym.ok /\ de.y * de.w + de.x + 1 <= Len(de.frame)
                          THEN [@ EXCEPT ![de.y * de.w + de.x + 1] =
                                   byte(predicted + unfold_delta(sym.v)
                                        * (IF de.lossy > 0 THEN de.lossy * 2 + 1 ELSE 1))]
                          ELSE @,
                !.last = byte(predicted + unfold_delta(sym.v)
                              * (IF de.lossy > 0 THEN de.lossy * 2 + 1 ELSE 1)),
                !.bits = bits_estimate_loop(0, sym.v)],
     inside |-> de.y * de.w + de.x + 1 <= Len(de.frame),
     sworn |-> 0 <= sym.v /\ sym.v <= 255,
     run |-> 0, rice |-> sym.v, pred |-> predicted]

(* the body of for (int x ...) in decode once the run-mode flag is in flag *)
decode_symbol(de, s, ns, may_run, flag) ==
    IF may_run /\ flag.v = 1
    THEN decode_fill(de, decode_run(s, flag))
    ELSE decode_sample(de, prediction(de.x, de.y, ns.a, ns.b, ns.c),
                       t87_decode_entropy(s, flag, de.bits))

decode_pixel(de, s, ns, may_run) ==
    decode_symbol(de, s, ns, may_run,
                  IF may_run THEN bitio_read_1_bit(s, de.rs)
                  ELSE [de.rs EXCEPT !.v = 0])

(* the state after the step r of decode taken from de *)
T87DecodeApply(de, may_run, r) ==
    /\ dhist' = Append(dhist, [x |-> de.x, y |-> de.y, k |-> de.bits,
                               pos |-> de.rs.pos, mode |-> may_run,
                               run |-> r.run, rice |-> r.rice, pred |-> r.pred,
                               last |-> de.last])
    /\ pc' = IF r.de.rs.ok /\ ~r.inside THEN "undefined"
             ELSE IF ~r.de.rs.ok \/ (debug /\ ~r.sworn) THEN "aborted"
             ELSE "t87_dec"
    /\ test' = [test EXCEPT !.de =
                    IF ~r.de.rs.ok \/ ~r.inside \/ (debug /\ ~r.sworn) THEN r.de
                    ELSE t87_row_end_of(r.de, de.w)]

T87DecodePixel(de, may_run) ==
    T87DecodeApply(de, may_run,
                   decode_pixel(de, test.stream,
                                neighbors(de.x, de.y, de.w, de.frame), may_run))

(* one iteration of for (int x ...) in decode *)
T87DecodeStep ==
    /\ pc = "t87_dec"
    /\ test.de.y < test.de.h
    /\ T87DecodePixel(test.de,
                      /\ test.rle
                      /\ test.de.last >= 0
                      /\ rle_mode(neighbors(test.de.x, test.de.y, test.de.w,
                                            test.de.frame), test.de.lossy))
    /\ UNCHANGED <<inVars, encVars, width, height, rd, dw, dh, dbits, dprediction,
                   dpix, dret, past, hres>>

(* return w * h *)
T87DecodeReturn ==
    /\ pc = "t87_dec"
    /\ ~(test.de.y < test.de.h)
    /\ test' = [test EXCEPT !.ret = test.de.w * test.de.h]
    /\ pc' = "t87_done"
    /\ UNCHANGED <<inVars, encVars, decVars, hres>>

T87Next ==
    \/ T87EncodeBegin
    \/ T87EncodeStep
    \/ T87EncodeFault
    \/ T87EncodeFlush
    \/ T87DecodeBegin
    \/ T87DecodeStep
    \/ T87DecodeReturn

SpecT87 == T87Init /\ [][T87Next]_vars

----------------------------------------------------------------------------
RECURSIVE SumSeq(_)
SumSeq(q) == IF q = <<>> THEN 0 ELSE Head(q) + SumSeq(Tail(q))

(* bdgr_encode has returned (eret is its return value) *)
EncodeReturned == pc \notin {"start", "enc"} /\ ~wr.failed

(* bdgr_decode has been entered (width, height are its arguments) *)
DecodeEntered == width # 0

(* C2. Header invariance: bdgr_header on the encoder's output returns the  *)
(* width and height the frame was encoded with.                            *)
HeaderInvariance == pc = "header_done" => hres = <<w, h>>

(* C3. Alignment: the value bdgr_encode returns is a multiple of 8 and is  *)
(* 8 * ceil(B / 64), B = 32 header bits + the bits of all symbols.         *)
Alignment ==
    EncodeReturned =>
        /\ eret % 8 = 0
        /\ eret = 8 * ((32 + SumSeq(symlen) + 63) \div 64)

AlignmentWitness ==
    EncodeReturned /\ Len(symlen) > 1 /\ (32 + SumSeq(symlen)) % 64 = 0

(* C4. The decoder never loads a 64-bit word at a byte offset >= the       *)
(* number of bytes bdgr_encode returned.                                   *)
NoReadPastEnd == (EncodeReturned /\ DecodeEntered) => 8 * rd.p <= eret

(* C5. Size bound: bdgr_encode stores at most 4 * w * h bytes, rounded up  *)
(* to a multiple of 8, and returns no more than that.                      *)
SizeBound ==
    /\ 8 * Len(wr.mem) <= Up8(4 * w * h)
    /\ EncodeReturned => eret <= Up8(4 * w * h)

SizeBoundWitness ==
    /\ EncodeReturned
    /\ w * h >= 3
    /\ eret = Up8(4 * w * h)
    /\ \E i \in 1..Len(symlen) : symlen[i] = bdgr_cut_off + 1 + 8

(* C6. Dimension mismatch: when the dimensions in the header differ from   *)
(* the expected ones, bdgr_decode aborts and stores no pixel.              *)
MismatchAborts ==
    (DecodeEntered /\ <<dw, dh>> # <<width, height>>) =>
        (pc = "aborted" /\ dpix = <<>>)

(* C7. In a debug build no 64-bit word is stored at or beyond              *)
(* output + max_bytes: an assertion trips first.                           *)
DebugOverflowCaught == debug => Len(wr.mem) <= end

(* C8. Writer/reader duality: the values pulled by a primed reader are    *)
(* the values pushed, in order, and no pull fails.                         *)
BitsDuality ==
    test.kind = "bits" =>
        /\ pc # "aborted"
        /\ \A i \in 1..Len(test.got) : test.got[i] = test.ops[i][1]

(* C9. Rice coder duality: the symbol takes 1 + min(q, CUTOFF) +           *)
(* (k if q < CUTOFF else 8) bits, q = r >> k, and decodes to r.            *)
RiceDuality ==
    test.kind = "rice" =>
        LET q == test.r \div 2 ^ test.k
        IN  /\ pc # "aborted"
            /\ pc \in {"rice_decode", "rice_done"} =>
                 test.nbits = 1 + (IF q < bdgr_cut_off THEN q ELSE bdgr_cut_off)
                                + (IF q < bdgr_cut_off THEN test.k ELSE 8)
            /\ pc = "rice_done" => test.got = test.r

RiceDualityWitness ==
    /\ test.kind = "rice"
    /\ pc = "rice_done"
    /\ test.q = bdgr_cut_off
    /\ test.pre = 62
    /\ test.r = 255

(* C10. Fold bijectivity: d is in -128..127, r in 0..255, unfolding r      *)
(* gives d, p + d is v modulo 256, and no other v gives the same r.        *)
FoldBijective ==
    (test.kind = "fold" /\ pc = "fold_done") =>
        /\ test.d = IF (test.v - test.p) % 256 >= 128
                    THEN ((test.v - test.p) % 256) - 256
                    ELSE (test.v - test.p) % 256
        /\ -128 <= test.d /\ test.d <= 127
        /\ test.r = IF test.d >= 0 THEN 2 * test.d ELSE -2 * test.d - 1
        /\ 0 <= test.r /\ test.r <= 255
        /\ test.ice = test.d
        /\ (test.p + test.d) % 256 = test.v
        /\ test.x = test.v
        /\ \A v2 \in 0..255 :
             fold_rice(fold_delta(v2, test.p)) = test.r => v2 = test.v

FoldBijectiveWitness ==
    test.kind = "fold" /\ pc = "fold_done" /\ test.d = -128 /\ test.r = 255

----------------------------------------------------------------------------
(* C11: the Rice parameter the decoder uses for pixel i is the one the     *)
(* encoder used for pixel i; it is bdgr_start_with_bits for the first      *)
(* pixel and bdgr_k4rice[rice of pixel i - 1] for every later one, a       *)
(* function of the previous residual alone.                                *)
KOf(hist, i) ==
    IF i = 1 THEN bdgr_start_with_bits ELSE bdgr_k4rice[hist[i - 1].rice + 1]

KDeterminism ==
    /\ \A i \in 1..Len(ehist) : ehist[i].k = KOf(ehist, i)
    /\ \A i \in 1..Len(dhist) : /\ dhist[i].k = KOf(dhist, i)
                                 /\ dhist[i].k = ehist[i].k
    /\ pc = "enc" => ebits = KOf(ehist, Len(ehist) + 1)
    /\ pc \in {"dec", "done"} => dbits = KOf(dhist, Len(dhist) + 1)

KDeterminismWitness ==
    /\ pc = "done"
    /\ Len(dhist) = 4
    /\ dhist[2].k = 0 /\ dhist[3].k = 3 /\ dhist[4].k = 7

----------------------------------------------------------------------------
(* C12: bits 0..15 of the first output word hold the width and bits 16..31 *)
(* the height, least significant bit first, and the first symbol starts at *)
(* bit 32.                                                                 *)
HeaderLayout ==
    EncodeReturned =>
        /\ \A i \in 0..15 : wr.mem[1][i + 1] = (w \div 2 ^ i) % 2
        /\ \A i \in 0..15 : wr.mem[1][i + 17] = (h \div 2 ^ i) % 2
        /\ ehist[1].pos = 32

HeaderLayoutWitness ==
    /\ EncodeReturned
    /\ w = 3 /\ h = 1
    /\ wr.mem[1][1] = 1 /\ wr.mem[1][2] = 1 /\ wr.mem[1][17] = 1

----------------------------------------------------------------------------
(* C19: at every pixel of every encode and decode pass the Rice parameter  *)
(* is an integer in 0..8.                                                  *)
KRange ==
    /\ ebits \in 0..8
    /\ dbits \in 0..8
    /\ \A i \in 1..Len(ehist) : ehist[i].k \in 0..8
    /\ \A i \in 1..Len(dhist) : dhist[i].k \in 0..8
    /\ \A i \in 1..Len(ehist) : bits_estimate_bdgr(ehist[i].rice) \in 0..8

KRangeWitness ==
    /\ pc = "done"
    /\ \E i \in 1..Len(ehist) : bits_estimate_bdgr(ehist[i].rice) = 8
    /\ \E i \in 2..Len(dhist) : dhist[i].k = 7
    /\ \E i \in 2..Len(dhist) : dhist[i].k = 0

----------------------------------------------------------------------------
(* C20: before each pixel is coded the prediction is the previous pixel in *)
(* raster order, and 0 before the first pixel; it is not reset where a row *)
(* ends.                                                                   *)
PredOf(i) == IF i = 1 THEN 0 ELSE data[i - 1]

PredictionInvariant ==
    /\ \A i \in 1..Len(ehist) : ehist[i].pred = PredOf(i)
    /\ \A i \in 1..Len(dhist) : dhist[i].pred = PredOf(i)
    /\ pc = "enc" => eprediction = PredOf(es + 1)
    /\ pc \in {"dec", "done"} => dprediction = PredOf(Len(dpix) + 1)

PredictionInvariantWitness ==
    /\ pc = "done"
    /\ w = 2 /\ h = 2
    /\ data[2] = 128
    /\ ehist[3].pred = 128 /\ dhist[3].pred = 128

----------------------------------------------------------------------------
(* C17: for every r in 0..255 the entry bdgr_k4rice[r] is the result of    *)
(* bits = 0; while ((1 << bits) < r) bits++; if (bits > 1) bits--;         *)
K4ClosedForm ==
    pc = "k4_done" => test.tab = test.est

K4ClosedFormWitness ==
    /\ pc = "k4_done"
    /\ test.r = 4 /\ test.est = 1 /\ test.tab = 1

----------------------------------------------------------------------------
(* C18 as stated: for every r in 0..255 the entry bdgr_k4rice[r] is        *)
(* max(0, ceil(log2(r + 1)) - 1).                                          *)
K4CeilLog2 ==
    pc = "k4_done" =>
        test.tab = (IF CeilLog2(test.r + 1) >= 1 THEN CeilLog2(test.r + 1) - 1
                                                 ELSE 0)

(* C18 amended: for every r in 0..255 the entry bdgr_k4rice[r] is c - 1    *)
(* when c = ceil(log2(r)) exceeds 1 and c itself otherwise (0 for r <= 1,  *)
(* 1 for r = 2).                                                           *)
K4CeilLog2Amended ==
    pc = "k4_done" =>
        LET c == CeilLog2(test.r)
        IN  test.tab = (IF c > 1 THEN c - 1 ELSE c)

K4CeilLog2Witness ==
    /\ pc = "k4_done"
    /\ test.r = 2 ^ 6
    /\ test.tab = 5

----------------------------------------------------------------------------
(* C13: the n-th bit written (n from 0) is bit n mod 64 of output word     *)
(* n div 64, in the completed words and in the last, partial word once it  *)
(* is flushed, and it is bit n mod 8 of byte n div 8 of the byte-addressed *)
(* packing of the same values.                                             *)
RECURSIVE BitsOf(_, _)
BitsOf(v, n) == IF n = 0 THEN <<>> ELSE <<v % 2>> \o BitsOf(v \div 2, n - 1)

RECURSIVE Written(_)
Written(ops) ==
    IF ops = <<>> THEN <<>>
    ELSE BitsOf(Head(ops)[1], Head(ops)[2]) \o Written(Tail(ops))

BitPlacement ==
    test.kind = "bits" =>
        LET bits == Written(test.ops)
        IN  \A n \in 0..(Len(bits) - 1) :
                /\ n < 64 * Len(wr.mem) =>
                        wr.mem[n \div 64 + 1][(n % 64) + 1] = bits[n + 1]
                /\ (test.output[n \div 8 + 1] \div 2 ^ (n % 8)) % 2 = bits[n + 1]

BitPlacementWitness ==
    /\ test.kind = "bits"
    /\ pc = "bits_prime"
    /\ test.pos = 31 + 31 + 31
    /\ Len(wr.mem) = 2
    /\ wr.mem[1][62] = 1
    /\ wr.mem[2][29] = 1

----------------------------------------------------------------------------
(* C14: for every w and h in 1..65535 the int product w * h is the         *)
(* mathematical product, so bdgr_encode consumes exactly w * h samples and *)
(* bdgr_decode writes and returns exactly w * h.                           *)
FrameSizeExact ==
    pc = "size_done" =>
        /\ test.consumed = test.exact
        /\ test.written = test.exact
        /\ test.ret >= 0 /\ limbs_of(test.ret) = test.exact

----------------------------------------------------------------------------
(* C15: in the MED variant with lossy = 0, with run mode off and on, the   *)
(* decoded frame is the original frame, pixel for pixel.                   *)
ExtLossless ==
    (test.kind = "t87" /\ test.lossy = 0) =>
        /\ pc # "aborted"
        /\ pc = "t87_done" => (test.de.frame = data /\ test.ret = w * h)

----------------------------------------------------------------------------
(* C16: with lossy >= 1 every decoded pixel is within lossy of the         *)
(* original pixel, for every frame.                                        *)
NearLosslessBound ==
    (test.kind = "t87" /\ test.lossy >= 1 /\ pc = "t87_done") =>
        \A i \in 1..(w * h) : abs(test.de.frame[i] - data[i]) <= test.lossy

----------------------------------------------------------------------------
(* The codec on the frames of the boundary scenarios: rows and two-row     *)
(* frames of up to ScenMaxPixels pixels that alternate between two values  *)
(* in row-major order: 128 and 0, 128 and 128 (uniform), 63 and 64.        *)
ScenMaxPixels == 8

ScenPatterns == {<<128, 0>>, <<128, 128>>, <<63, 64>>}

ScenInit ==
    /\ pc = "start"
    /\ debug \in BOOLEAN
    /\ \E d \in (1..ScenMaxPixels) \X (1..2), pat \in ScenPatterns :
        /\ d[1] * d[2] <= ScenMaxPixels
        /\ w = d[1]
        /\ h = d[2]
        /\ data = [i \in 1..(d[1] * d[2]) |-> pat[2 - (i % 2)]] \o <<>>
        /\ max_bytes = Up8(4 * d[1] * d[2])
    /\ NotStarted
    /\ test = NoTest

SpecScen == ScenInit /\ [][Next]_vars

----------------------------------------------------------------------------
(* bdgr_decode on a stream that no encoder made: one 64-bit word, a header *)
(* for a frame of up to four pixels followed by two 16-bit fields taken    *)
(* from all zeros, all ones, the lowest and the highest bit alone.         *)
StreamFields == {0, 1, 32768, 65535}

StreamInit ==
    /\ pc = "encoded"
    /\ debug \in BOOLEAN
    /\ data = <<>>
    /\ w \in 1..2 /\ h \in 1..2
    /\ max_bytes = 8
    /\ \E lo \in StreamFields, hi \in StreamFields :
          wr = [NewWriter EXCEPT
                  !.p = 1,
                  !.mem = << [i \in 1..64 |->
                               (<<w, h, lo, hi>>[(i - 1) \div 16 + 1]
                                    \div 2 ^ ((i - 1) % 16)) % 2] \o <<>> >>]
    /\ eret = 8
    /\ ebits = 0 /\ eprediction = 0 /\ es = 0
    /\ symlen = <<>> /\ ehist = <<>>
    /\ width = 0 /\ height = 0
    /\ rd = NewReader
    /\ dw = 0 /\ dh = 0 /\ dbits = 0 /\ dprediction = 0
    /\ dpix = <<>> /\ dhist = <<>> /\ dret = 0
    /\ hres = <<>>
    /\ past = Zero64
    /\ test = NoTest

StreamNext ==
    \/ Header
    \/ DecodeBegin
    \/ DecodePixel
    \/ DecodeReturn

SpecStream == StreamInit /\ [][StreamNext]_vars

----------------------------------------------------------------------------
(* C21: on the encoder's stream the decoder counts at most bdgr_cut_off    *)
(* zero bits before the stop bit of a symbol, and it counts exactly        *)
(* bdgr_cut_off for the symbols the encoder wrote through the escape path  *)
(* (bdgr_cut_off zeros, a 1, 8 raw bits) and for no other.                 *)
UnaryCap ==
    \A i \in 1..Len(dhist) :
        /\ dhist[i].q <= bdgr_cut_off
        /\ dhist[i].q = bdgr_cut_off <=> symlen[i] = bdgr_cut_off + 1 + 8

UnaryCapWitness ==
    /\ pc = "done"
    /\ \E i \in 1..Len(dhist) : dhist[i].q = bdgr_cut_off /\ dhist[i].rice = 238
    /\ \E i \in 1..Len(dhist) : dhist[i].q = 2 /\ dhist[i].k = 2

----------------------------------------------------------------------------
(* C22: for every input stream, also one no encoder produced, bdgr_decode  *)
(* takes the count-trailing-zeros branch only with an operand that has a 1 *)
(* bit, and reads the prefix bit by bit otherwise.                         *)
GuardedCtz ==
    \A i \in 1..Len(dhist) : dhist[i].ctz => dhist[i].nonzero

----------------------------------------------------------------------------
(* C23: on the encoder's stream, whenever the decoder is about to read a   *)
(* prefix with more than bdgr_cut_off valid bits in the register, the      *)
(* count-trailing-zeros branch it takes gives the same q and leaves the    *)
(* same register, bit count and word pointer as the bit-by-bit loop would  *)
(* from the same state.                                                    *)
FastEqualsSlow ==
    (pc = "dec" /\ Len(dpix) < dw * dh /\ pull_in(rd).count > bdgr_cut_off) =>
        decode_unary(rd, 0) = unary_loop(pull_in(rd), 0)

FastEqualsSlowWitness ==
    /\ pc = "dec" /\ Len(dpix) < dw * dh
    /\ pull_in(rd).count > bdgr_cut_off
    /\ decode_unary(rd, 0).q = bdgr_cut_off
    /\ decode_unary(rd, 0).rs.count = 64

----------------------------------------------------------------------------
(* C24: the decoder starts reading the symbol of every pixel at the bit    *)
(* offset at which the encoder started writing it, and it consumes for the *)
(* pixel exactly the number of bits the encoder pushed for it.             *)
Lockstep ==
    pc \in {"dec", "done"} =>
        \A i \in 1..Len(dhist) :
            /\ dhist[i].pos = ehist[i].pos
            /\ (IF i < Len(dhist) THEN dhist[i + 1].pos ELSE ReadPos(rd))
                   - dhist[i].pos = symlen[i]

LockstepWitness ==
    /\ pc = "done"
    /\ Len(dhist) = 4
    /\ dhist[4].pos > 64
    /\ \E i \in 1..3 : dhist[i].pos < 64 /\ dhist[i].pos + symlen[i] > 64

----------------------------------------------------------------------------
(* The scenario a frame belongs to, and the bit at offset n of the         *)
(* encoder's finished stream.                                              *)
Alternates(a, b) ==
    \A i \in 1..Len(data) : data[i] = IF i % 2 = 1 THEN a ELSE b

StreamBit(n) == wr.mem[n \div 64 + 1][(n % 64) + 1]

(* C25 as stated: in a frame alternating 128, 0, 128, 0, ... every pixel   *)
(* has the residual -128 and the symbol 255, and every symbol is written   *)
(* through the escape path (bdgr_cut_off zeros, a 1, 8 raw bits).          *)
WorstCaseEscapes ==
    Alternates(128, 0) =>
        \A i \in 1..Len(ehist) :
            /\ fold_delta(data[i], ehist[i].pred) = -128
            /\ ehist[i].rice = 255
            /\ symlen[i] = bdgr_cut_off + 1 + 8

(* C25 amended: every pixel has the residual -128 and the symbol 255, but  *)
(* k is 7 for every pixel (bdgr_start_with_bits, then bdgr_k4rice[255]),   *)
(* so q is 1 and each symbol takes the regular path in 9 bits: a 0, the    *)
(* stop bit, the remainder 127 in 7 bits.  The escape path is not taken.   *)
WorstCaseRegular ==
    Alternates(128, 0) =>
        /\ \A i \in 1..Len(ehist) :
            /\ fold_delta(data[i], ehist[i].pred) = -128
            /\ ehist[i].rice = 255
            /\ ehist[i].k = 7
            /\ symlen[i] = 1 + 1 + 7
        /\ pc \in {"encoded", "header_done", "dec", "done"} =>
             \A i \in 1..Len(ehist) :
                /\ StreamBit(ehist[i].pos) = 0
                /\ \A j \in 1..8 : StreamBit(ehist[i].pos + j) = 1
        /\ (pc = "done" /\ width = w /\ height = h) => dpix = data

WorstCaseWitness ==
    /\ Alternates(128, 0)
    /\ pc = "done" /\ width = w /\ height = h
    /\ Len(data) = ScenMaxPixels
    /\ Len(ehist) = ScenMaxPixels

----------------------------------------------------------------------------
(* C26 as stated: in a frame of any size whose pixels are all 128, every   *)
(* pixel has the residual 0 and the symbol 0, k falls to 0, the symbol     *)
(* bits are all 1 bits, and the frame round-trips.                         *)
UniformAllZero ==
    Alternates(128, 128) =>
        /\ \A i \in 1..Len(ehist) :
            /\ fold_delta(data[i], ehist[i].pred) = 0
            /\ ehist[i].rice = 0
        /\ \A i \in 2..Len(ehist) : ehist[i].k = 0
        /\ pc \in {"encoded", "header_done", "dec", "done"} =>
             \A i \in 1..Len(ehist) : \A j \in 0..(symlen[i] - 1) :
                StreamBit(ehist[i].pos + j) = 1
        /\ (pc = "done" /\ width = w /\ height = h) => dpix = data

(* C26 amended: the first pixel is predicted from 0, so its residual is    *)
(* -128 and its symbol 255, written with k = 7 in 9 bits; every later      *)
(* pixel has the residual 0 and the symbol 0.  The second symbol is still  *)
(* written with k = 7 (bdgr_k4rice[255]): a 1 and seven 0 bits.  From the  *)
(* third pixel on k is 0 and each symbol is the single bit 1.  The frame   *)
(* round-trips.                                                            *)
UniformCollapses ==
    Alternates(128, 128) =>
        /\ \A i \in 1..Len(ehist) :
            /\ ehist[i].rice = IF i = 1 THEN 255 ELSE 0
            /\ fold_delta(data[i], ehist[i].pred) = IF i = 1 THEN -128 ELSE 0
            /\ ehist[i].k = IF i <= 2 THEN 7 ELSE 0
            /\ symlen[i] = IF i = 1 THEN 9 ELSE IF i = 2 THEN 8 ELSE 1
        /\ pc \in {"encoded", "header_done", "dec", "done"} =>
             \A i \in 2..Len(ehist) :
                /\ StreamBit(ehist[i].pos) = 1
                /\ \A j \in 1..(symlen[i] - 1) : StreamBit(ehist[i].pos + j) = 0
        /\ (pc = "done" /\ width = w /\ height = h) => dpix = data

UniformWitness ==
    /\ Alternates(128, 128)
    /\ pc = "done" /\ width = w /\ height = h
    /\ Len(data) = ScenMaxPixels /\ h = 2
    /\ ehist[ScenMaxPixels].k = 0 /\ symlen[ScenMaxPixels] = 1
    /\ StreamBit(ehist[ScenMaxPixels].pos) = 1

----------------------------------------------------------------------------
(* C27 as stated: in a frame alternating 63, 64, 63, 64, ... the residuals *)
(* after the first pixel alternate +1, -1, +1, ..., the symbols alternate  *)
(* 2, 3, 2, 3, ..., and the frame round-trips.                             *)
AlternatingTwoThree ==
    Alternates(63, 64) =>
        /\ \A i \in 2..Len(ehist) :
            /\ fold_delta(data[i], ehist[i].pred) = IF i % 2 = 0 THEN 1 ELSE -1
            /\ ehist[i].rice = IF i % 2 = 0 THEN 2 ELSE 3
        /\ (pc = "done" /\ width = w /\ height = h) => dpix = data

(* C27 amended: the residuals after the first pixel alternate +1, -1, and  *)
(* the symbols alternate 2, 1 (the residual -1 folds to 2 * 1 - 1 = 1).    *)
(* The first symbol is 126 at k = 7, the second is written with            *)
(* k = bdgr_k4rice[126], after that k is bdgr_k4rice[2] before a symbol 1  *)
(* and bdgr_k4rice[1] before a symbol 2.  The frame round-trips.           *)
AlternatingTwoOne ==
    Alternates(63, 64) =>
        /\ \A i \in 1..Len(ehist) :
            /\ fold_delta(data[i], ehist[i].pred) =
                 IF i = 1 THEN 63 ELSE IF i % 2 = 0 THEN 1 ELSE -1
            /\ ehist[i].rice = IF i = 1 THEN 126 ELSE IF i % 2 = 0 THEN 2 ELSE 1
            /\ ehist[i].k = IF i = 1 THEN bdgr_start_with_bits
                            ELSE IF i = 2 THEN k4rice(126)
                            ELSE IF i % 2 = 0 THEN k4rice(1) ELSE k4rice(2)
        /\ (pc = "done" /\ width = w /\ height = h) => dpix = data

AlternatingWitness ==
    /\ Alternates(63, 64)
    /\ pc = "done" /\ width = w /\ height = h
    /\ Len(data) = ScenMaxPixels /\ h = 1
    /\ ehist[ScenMaxPixels - 1].rice = 1 /\ ehist[ScenMaxPixels].rice = 2
    /\ dpix[ScenMaxPixels - 1] = 63 /\ dpix[ScenMaxPixels] = 64

----------------------------------------------------------------------------
(* the symbol rice written with k bits takes the escape branch *)
Escapes(rice, k) == rice \div 2 ^ k >= bdgr_cut_off

EscapedAt(i) == Escapes(ehist[i].rice, ehist[i].k)

(* C28: the first symbol of a frame never takes the escape path: it is     *)
(* written with k = 7 in 8 or 9 bits, whatever its value.  No three        *)
(* consecutive symbols take the escape path: once a symbol has escaped,    *)
(* every value of the next symbol that escapes too leaves a k under which  *)
(* no value of the symbol after it escapes.                                *)
EscapeFrequency ==
    /\ \A i \in 1..Len(ehist) :
        /\ EscapedAt(i) <=> symlen[i] = bdgr_cut_off + 1 + 8
        /\ i = 1 => /\ ~EscapedAt(i)
                    /\ ehist[i].k = 7
                    /\ symlen[i] \in {8, 9}
                    /\ \A r \in 0..255 : ~Escapes(r, ehist[i].k)
        /\ i + 2 <= Len(ehist) => ~(EscapedAt(i) /\ EscapedAt(i + 1) /\ EscapedAt(i + 2))
        /\ EscapedAt(i) =>
             \A r2 \in 0..255 : Escapes(r2, k4rice(ehist[i].rice)) =>
                \A r3 \in 0..255 : ~Escapes(r3, k4rice(r2))
    /\ pc = "enc" /\ Len(ehist) >= 1 => ebits = k4rice(ehist[Len(ehist)].rice)

EscapeFrequencyWitness ==
    /\ pc = "done" /\ Len(ehist) = 4
    /\ symlen[1] = 8
    /\ EscapedAt(2) /\ EscapedAt(3) /\ ~EscapedAt(4)
    /\ dpix = data

----------------------------------------------------------------------------
(* Termination of bdgr_decode.  The codec runs sequentially in the         *)
(* caller's thread.                                                        *)

(* the pixel loop of bdgr_decode has an iteration left *)
InLoop == pc = "dec" /\ Len(dpix) < dw * dh

(* A call that can take a step takes it.  For the pixel loop this is weak  *)
(* fairness of DecodePixel written out, with the test of the loop in place *)
(* of ENABLED: DecodePixel is enabled exactly when InLoop holds.           *)
SpecLive ==
    /\ Init /\ [][Next]_vars
    /\ WF_vars(DecodeReturn)
    /\ ([]<>~InLoop \/ []<><<DecodePixel>>_vars)

(* C29: bdgr_decode, once in its pixel loop on a stream bdgr_encode wrote  *)
(* for a w x h frame, finishes: it comes to its return after exactly w * h *)
(* iterations of the loop, each of which read a unary prefix of at most    *)
(* bdgr_cut_off zeros and its stop bit, and returns w * h.                 *)
DecodeTerminates ==
    (pc = "dec") ~>
        /\ pc = "done"
        /\ dret = w * h
        /\ Len(dpix) = w * h
        /\ Len(dhist) = w * h
        /\ \A i \in 1..Len(dhist) : dhist[i].q + 1 <= bdgr_cut_off + 1

DecodeTerminatesWitness ==
    /\ pc = "done" /\ dret = w * h /\ dret = 4 /\ Len(dhist) = 4
    /\ \E i \in 1..4 : dhist[i].q = bdgr_cut_off /\ ~dhist[i].ctz
    /\ \E i \in 1..4 : dhist[i].q = bdgr_cut_off /\ dhist[i].ctz

----------------------------------------------------------------------------
(* The experimental MED codec of loco.c (encode, lines 330-347): the       *)
(* encoder tracks a run of samples equal to the last one while it still    *)
(* writes each of them as a symbol; at the end of the run it goes back to  *)
(* the bit position of the run's start and writes a marker and the count   *)
(* instead, if that is shorter, and stores the run's value over the run's  *)
(* samples.  Only bit positions are kept of the output.                    *)

exp_start_with_bits == 6

rle_marker == 511

(* a / b as C divides ints, b > 0 *)
c_div(a, b) == IF a >= 0 THEN a \div b ELSE -((-a) \div b)

(* the bit position after encode_entropy has written v at pos *)
encode_entropy_end(pos, v, bits) ==
    LET q == v \div 2 ^ bits
    IN  pos + (IF q >= 15 THEN 15 + 1 + 9 ELSE q + 1) + bits

estimate_bits_for_run(bits) ==
    LET q == rle_marker \div 2 ^ bits
    IN  IF q >= 15 THEN 25 + 8 ELSE q + 1 + bits + 8

(* a test that lets a sample one step further away into the run *)
run_near_loose(a, v, lossy) == abs(a - v) <= lossy + 1

(* abs(a - v) <= ctx.lossy, the test that starts and continues a run *)
run_near(a, v, lossy) == abs(a - v) <= lossy

NoRun == [count |-> 0, val |-> -1, x |-> -1, pos |-> -1, bits |-> -1]

(* encode_run, called with ctx.x = x *)
exp_encode_run(en, x) ==
    LET sworn == 0 < en.run.count /\ en.run.count <= 255
        short == en.run.pos + estimate_bits_for_run(en.run.bits) < en.pos
    IN  IF ~sworn THEN [en EXCEPT !.ok = FALSE]
        ELSE IF short
        THEN [en EXCEPT
                !.pos   = encode_entropy_end(en.run.pos, rle_marker, en.run.bits) + 8,
                !.frame = fill_run(@, w, en.y, en.run.x, en.run.count, en.run.val),
                !.ok    = en.run.x + en.run.count = x,
                !.bits  = exp_start_with_bits,
                !.wrote = @ + 1,
                !.ran   = TRUE,
                !.emitted = Append(@, [x |-> en.run.x, y |-> en.y,
                                       count |-> en.run.count]),
                !.run   = NoRun]
        ELSE [en EXCEPT !.run = NoRun]

(* the if (ctx.rle) block of encode_context for the sample v at ctx.x *)
exp_track_run(en, v, lossy) ==
    IF en.run.count = 0 /\ run_near(en.last, v, lossy)
    THEN [en EXCEPT !.run = [count |-> 1, val |-> en.last, pos |-> en.pos,
                             bits |-> en.bits, x |-> en.x]]
    ELSE IF run_near(en.run.val, v, lossy) /\ en.run.count < 255
    THEN [en EXCEPT !.run.count = @ + 1]
    ELSE IF en.run.count # 0 THEN exp_encode_run(en, en.x)
    ELSE en

(* the rest of the loop body: prediction, the lossy adjustment with its    *)
(* write-back, the fold and the symbol *)
exp_encode_delta(en, ns, v, lossy) ==
    LET predicted == prediction(en.x, en.y, ns.a, ns.b, ns.c)
        d0    == byte(v) - byte(predicted)
        delta == IF lossy > 0 THEN c_div((128 - lossy) * d0, 128) ELSE d0
        v1    == IF lossy > 0 THEN byte(predicted + delta) ELSE v
        d1    == IF delta < 0 THEN delta + 256 ELSE delta
        d2    == IF d1 >= 128 THEN d1 - 256 ELSE d1
        rice  == fold_rice(d2)
        pos   == encode_entropy_end(en.pos, rice, en.bits)
    IN  [en EXCEPT
            !.frame = IF lossy > 0
                      THEN [@ EXCEPT ![en.y * w + en.x + 1] = v1] ELSE @,
            !.ok    = /\ en.ok
                      /\ -128 <= d2 /\ d2 <= 127
                      /\ 0 <= rice /\ rice < rle_marker
                      /\ pos <= 8 * max_bytes,
            !.pos   = pos,
            !.kused = en.bits,
            !.after = en.ran,
            !.ran   = FALSE,
            !.bits  = bits_estimate_loop(0, rice),
            !.last  = v1]

(* the end of the row when x has reached the width: a run cannot cross     *)
(* lines *)
exp_row_end(en) ==
    IF en.x + 1 < w \/ ~en.ok THEN [en EXCEPT !.x = @ + 1]
    ELSE LET e1 == IF en.run.count > 0 THEN exp_encode_run(en, w) ELSE en
         IN  [e1 EXCEPT !.x = 0, !.y = @ + 1, !.last = -1,
                        !.bits = exp_start_with_bits]

(* Frames of the experimental codec: a single sample, a row, and a frame   *)
(* of two rows in which a run of the second row costs more bits than its   *)
(* marker; two values one apart and a distant one.                         *)
ExpDims == {<<1, 1>>, <<3, 1>>, <<4, 2>>}

ExpValues == {63, 64, 128}

ExpInit ==
    /\ pc = "exp_start"
    /\ debug = TRUE
    /\ \E d \in ExpDims :
        /\ w = d[1]
        /\ h = d[2]
        /\ data \in [1..(d[1] * d[2]) -> ExpValues]
        /\ max_bytes = 3 * d[1] * d[2]
    /\ NotStarted
    /\ \E lossy \in {0, 1} :
        test = [kind |-> "exp", rle |-> TRUE, lossy |-> lossy,
                en |-> [frame |-> <<>>, x |-> 0, y |-> 0, bits |-> 0, last |-> 0,
                        pos |-> 0, run |-> NoRun, ok |-> TRUE, wrote |-> 0,
                        emitted |-> <<>>, ran |-> FALSE, after |-> FALSE,
                        kused |-> -1],
                ret |-> 0]

(* encode(): the context *)
ExpEncodeBegin ==
    /\ pc = "exp_start"
    /\ test' = [test EXCEPT !.en = [@ EXCEPT !.frame = data \o <<>>,
                                             !.last = -1,
                                             !.bits = exp_start_with_bits]]
    /\ pc' = "exp_enc"
    /\ UNCHANGED <<inVars, encVars, decVars, hres>>

(* one iteration of for (ctx.x ...) in encode_context *)
ExpEncodeStep ==
    /\ pc = "exp_enc"
    /\ test.en.y < h
    /\ LET v  == line_at(test.en.frame, w, test.en.y, test.en.x)
           e1 == IF test.rle THEN exp_track_run(test.en, v, test.lossy) ELSE test.en
           e2 == exp_encode_delta(e1, neighbors(e1.x, e1.y, w, e1.frame), v, test.lossy)
           e3 == exp_row_end(e2)
       IN  /\ test' = [test EXCEPT !.en = e3]
           /\ pc' = IF e3.ok THEN "exp_enc" ELSE "aborted"
    /\ UNCHANGED <<inVars, encVars, decVars, hres>>

(* after the loops: the number of bytes *)
ExpEncodeReturn ==
    /\ pc = "exp_enc"
    /\ ~(test.en.y < h)
    /\ test' = [test EXCEPT !.ret = (test.en.pos + 7) \div 8]
    /\ pc' = "exp_done"
    /\ UNCHANGED <<inVars, encVars, decVars, hres>>

ExpNext == ExpEncodeBegin \/ ExpEncodeStep \/ ExpEncodeReturn

(* the three encoders: bdgr_encode with its decoder, and the two MED      *)
(* encoders *)
SpecEncoders ==
    (Init \/ T87Init \/ ExpInit) /\ [][Next \/ T87Next \/ ExpNext]_vars

(* C30: no step changes the frame the caller passed (bdgr_encode reads it  *)
(* through a pointer to const); the MED encoders work on the caller's      *)
(* buffer itself, and where lossy is 0 that buffer is at every step what   *)
(* the caller passed, run mode on or off: whatever a run writes back       *)
(* equals what was there.                                                  *)
InputUnchanged ==
    /\ [][data' = data]_vars
    /\ []((test.kind \in {"t87", "exp"} /\ test.lossy = 0
            /\ pc \notin {"t87_start", "exp_start"}) =>
                test.en.frame = data)

(* the experimental encoder has replaced a run by its marker and count and *)
(* stored the run's value over the run's samples, with lossy = 0 *)
InputUnchangedWitness ==
    /\ test.kind = "exp" /\ test.lossy = 0 /\ pc = "exp_done"
    /\ test.en.wrote > 0 /\ test.en.frame = data

----------------------------------------------------------------------------
(* MED prediction unit: prediction is applied to one position and one      *)
(* triple of neighbours.  a runs over all sample values, b and c over      *)
(* values at and next to the ends, the middle and the quarters of the      *)
(* range.                                                                  *)
MedSample == {0, 1, 2, 63, 64, 65, 126, 127, 128, 129, 191, 192, 193, 253, 254, 255}

PredInit ==
    /\ pc = "pred"
    /\ debug = TRUE
    /\ data = <<>> /\ w = 0 /\ h = 0
    /\ max_bytes = 8
    /\ NotStarted
    /\ \E x \in 0..1, y \in 0..1, a \in 0..255, b \in MedSample :
        test = [kind |-> "pred", x |-> x, y |-> y, a |-> a, b |-> b,
                c |-> 0, p |-> -1]

PredApply ==
    /\ pc = "pred"
    /\ \E c \in MedSample :
        test' = [test EXCEPT !.c = c,
                             !.p = prediction(test.x, test.y, test.a, test.b, c)]
    /\ pc' = "pred_done"
    /\ UNCHANGED <<inVars, encVars, decVars, hres>>

SpecPred == PredInit /\ [][PredApply]_vars

(* a value limited to the range of a sample *)
clamp(v) == IF v < 0 THEN 0 ELSE IF v > 255 THEN 255 ELSE v

(* the prediction p for the neighbours a, b, c at (x, y) is in range and   *)
(* is 0, a, b or a value between the smaller and the larger of a and b *)
PredictionFits(x, y, a, b, c, p) ==
    /\ p \in 0..255
    /\ clamp(p) = p
    /\ \/ p = 0 /\ x = 0 /\ y = 0
       \/ p = a
       \/ p = b
       \/ minimum(a, b) < p /\ p < maximum(a, b)

(* C31: the MED prediction of neighbours in 0..255 lies in 0..255 at every *)
(* position, so that clamping it changes nothing: the prediction applied,  *)
(* and before it is applied the prediction for every c in 0..255.          *)
PredictionInRange ==
    test.kind = "pred" =>
        /\ pc = "pred_done" =>
             PredictionFits(test.x, test.y, test.a, test.b, test.c, test.p)
        /\ pc = "pred" =>
             \A c \in 0..255 :
                PredictionFits(test.x, test.y, test.a, test.b, c,
                               prediction(test.x, test.y, test.a, test.b, c))

(* the gradient branch was taken and gave a value strictly inside *)
PredictionInRangeWitness ==
    /\ test.kind = "pred" /\ pc = "pred_done"
    /\ test.x = 1 /\ test.y = 1
    /\ test.a = 200 /\ test.b = 64 /\ test.c = 128
    /\ test.p = 200 + 64 - 128

----------------------------------------------------------------------------
(* what holds of the neighbour record ns of position (x, y) in a frame of  *)
(* width fw whatever the first row's b, c and d are: a is 0 in the first   *)
(* column, d is b in the last column, the gradients are the differences    *)
(* of the record's own values *)
BorderCommon(ns, x, y, fw) ==
    /\ x = 0 => ns.a = 0
    /\ x = fw - 1 => ns.d = ns.b
    /\ ns.d1 = ns.d - ns.b /\ ns.d2 = ns.b - ns.c /\ ns.d3 = ns.c - ns.a

(* the run-mode decision recorded in the history entry e is the one the    *)
(* gradients of the record ns give *)
ModeFrom(e, ns, lossy) == e.mode = (test.rle /\ e.last >= 0 /\ rle_mode(ns, lossy))

(* the decoder has taken the encoder's steps and its frame gives the same  *)
(* neighbour record at every position *)
SameRecords ==
    (pc = "t87_done" /\ test.stream # <<>>) =>
        /\ Len(dhist) = Len(ehist)
        /\ \A i \in 1..Len(ehist) :
            /\ dhist[i].x = ehist[i].x /\ dhist[i].y = ehist[i].y
            /\ dhist[i].mode = ehist[i].mode
            /\ neighbors(ehist[i].x, ehist[i].y, w, test.de.frame)
                 = neighbors(ehist[i].x, ehist[i].y, w, test.en.frame)

----------------------------------------------------------------------------
RunsInRowSeen ==
    /\ test.kind = "t87" /\ pc = "t87_done" /\ h = 2
    /\ \E i \in 1..Len(dhist) :
        dhist[i].y = 0 /\ dhist[i].run > 0 /\ dhist[i].x + dhist[i].run = w

----------------------------------------------------------------------------
(* C34: while it extends a run, encode_rle reads no sample at a column     *)
(* index x >= w of the current line.  scanned is the column of the last    *)
(* sample the condition of the while loop has read: the loop reads         *)
(* ctx.line[ctx.x] before it tests ctx.x < ctx.w.                          *)
ScanInsideRow ==
    test.kind = "t87" =>
        \A i \in 1..Len(ehist) : ehist[i].scanned < w

(* the weaker statement that the scan reads no sample after the last one   *)
(* of the frame *)
ScanInsideFrame ==
    test.kind = "t87" =>
        \A i \in 1..Len(ehist) : ehist[i].y * w + ehist[i].scanned < w * h

----------------------------------------------------------------------------
(* The run-count code on its own: encode_run writes the code of one count  *)
(* into a fresh bitio_t, bitio_flush hands it to the writer, and the       *)
(* decoder reads the run-mode flag and calls decode_run, as the run branch *)
(* of decode does.  The counts are the short ones, the ones around the     *)
(* changes of length, the ones around lb + 2 = limit (count - 6 = 4096),   *)
(* and the longest run of a row of 65535 samples.                          *)
RunCounts == (1..100) \cup {4100, 4101, 4102, 4103, 8197, 8198, 65534}

RunInit ==
    /\ pc = "run"
    /\ debug \in BOOLEAN
    /\ data = <<>> /\ w = 0 /\ h = 0
    /\ max_bytes = 8
    /\ NotStarted
    /\ \E count \in RunCounts :
        test = [kind |-> "run", count |-> count, code |-> <<>>, stream |-> <<>>,
                wrote_ok |-> TRUE, flag |-> -1, got |-> -1, used |-> 0,
                read_ok |-> TRUE]

(* encode_run(context, count) and bitio_flush *)
RunEncode ==
    /\ pc = "run"
    /\ LET bio == t87_encode_run(bitio_write_init, test.count)
       IN  test' = [test EXCEPT !.code = bio.reg,
                                !.stream = bitio_flush(bio).out,
                                !.wrote_ok = bio.ok]
    /\ pc' = "run_encoded"
    /\ UNCHANGED <<inVars, encVars, decVars, hres>>

(* run_mode = bitio_read_1_bit(bio); if (run_mode) count = decode_run(bio) *)
RunDecode ==
    /\ pc = "run_encoded"
    /\ LET s    == test.stream
           flag == bitio_read_1_bit(s, bitio_read(s, NewBitio))
           cnt  == IF flag.v = 1 THEN decode_run(s, flag) ELSE flag
       IN  test' = [test EXCEPT !.flag = flag.v, !.got = cnt.v,
                                !.used = cnt.pos, !.read_ok = cnt.ok]
    /\ pc' = "run_done"
    /\ UNCHANGED <<inVars, encVars, decVars, hres>>

RunNext == RunEncode \/ RunDecode

SpecRun == RunInit /\ [][RunNext]_vars

(* the bits encode_run writes for count *)
run_code(count) == t87_encode_run(bitio_write_init, count).reg

(* p is the beginning of q *)
IsPrefixOf(p, q) == Len(p) <= Len(q) /\ SubSeq(q, 1, Len(p)) = p

(* the code written for the count of the state is no prefix of the code of *)
(* another count, and none of those is a prefix of it *)
RunCodePrefixFree ==
    \A c \in RunCounts \ {test.count} :
        /\ ~IsPrefixOf(test.code, run_code(c))
        /\ ~IsPrefixOf(run_code(c), test.code)

(* the lengths the code has: 2 bits for count = 1, 5 bits for 2..5 *)
RunCodeLength ==
    /\ test.count = 1 => Len(test.code) = 2
    /\ test.count \in 2..5 => Len(test.code) = 5

(* C35: the run-count code is prefix-free, has 2 bits for count = 1 and 5  *)
(* bits for counts 2..5, the run-mode flag counted, and decode_run gives   *)
(* back the count, for every count from 1 to 65534.                        *)
RunCodeRoundTrip ==
    test.kind = "run" =>
        /\ pc \in {"run_encoded", "run_done"} =>
            /\ test.wrote_ok
            /\ RunCodeLength
            /\ RunCodePrefixFree
        /\ pc = "run_done" =>
            /\ test.read_ok
            /\ test.flag = 1
            /\ test.got = test.count
            /\ test.used = Len(test.code)

(* the same for the counts whose unary part is below limit: lb + 2 < 15,   *)
(* count - 6 < 4096 *)
RunCodeBelowLimit ==
    (test.kind = "run" /\ test.count <= 4101) => RunCodeRoundTrip

(* the lengths and the prefix property alone, for every count drawn *)
RunCodeShape ==
    (test.kind = "run" /\ pc \in {"run_encoded", "run_done"}) =>
        test.wrote_ok /\ RunCodeLength /\ RunCodePrefixFree

(* a count of the long form below the limit has been written and read *)
RunCodeBelowLimitSeen ==
    test.kind = "run" /\ pc = "run_done" /\ test.count = 4101 /\ test.got = 4101

----------------------------------------------------------------------------
(* the entries i and i + 1 of a history of the extended codec are a run    *)
(* and the entropy-coded sample after it in the same row *)
AfterRun(hist, i) ==
    /\ hist[i].run > 0
    /\ hist[i + 1].run = 0
    /\ hist[i + 1].y = hist[i].y

(* C36: after a run has been emitted by the encoder, and after it has been *)
(* expanded by the decoder, the Rice parameter of the next entropy-coded   *)
(* sample is start_with_bits, on both sides: in the extended codec for the *)
(* sample after each run of ehist and dhist, in the experimental encoder   *)
(* for the sample coded after encode_run has written a run (ran is set by  *)
(* encode_run, kused and after are the parameter of the last symbol and    *)
(* whether a run was written before it).                                   *)
KResetAfterRun ==
    /\ test.kind = "t87" =>
        /\ \A i \in 1..(Len(ehist) - 1) :
            AfterRun(ehist, i) => ehist[i + 1].k = t87_start_with_bits
        /\ \A i \in 1..(Len(dhist) - 1) :
            AfterRun(dhist, i) => dhist[i + 1].k = t87_start_with_bits
    /\ (test.kind = "exp" /\ test.en.after) =>
        test.en.kused = exp_start_with_bits

(* the part of it that is about the experimental encoder of loco.c *)
KResetExperimental ==
    (test.kind = "exp" /\ test.en.after) => test.en.kused = exp_start_with_bits

(* a sample coded after a written run that ended before it in its row *)
KResetExperimentalSeen ==
    /\ test.kind = "exp" /\ test.en.after
    /\ test.en.emitted # <<>>
    /\ LET r == test.en.emitted[Len(test.en.emitted)]
       IN  r.x + r.count < w

(* what the extended codec does: the parameter of the sample after a run   *)
(* is the one the run was met with, on both sides *)
KKeptAcrossRun ==
    test.kind = "t87" =>
        /\ \A i \in 1..(Len(ehist) - 1) :
            AfterRun(ehist, i) => ehist[i + 1].k = ehist[i].k
        /\ \A i \in 1..(Len(dhist) - 1) :
            AfterRun(dhist, i) => dhist[i + 1].k = dhist[i].k

KKeptAcrossRunSeen ==
    /\ test.kind = "t87" /\ pc = "t87_done"
    /\ \E i \in 1..(Len(dhist) - 1) :
        AfterRun(dhist, i) /\ dhist[i + 1].k # t87_start_with_bits

----------------------------------------------------------------------------
(* the decoder has taken the encoder's steps with the same run-mode        *)
(* decision, run count and prediction at every one *)
SameDecisions ==
    /\ Len(dhist) = Len(ehist)
    /\ \A i \in 1..Len(ehist) :
        /\ dhist[i].x = ehist[i].x /\ dhist[i].y = ehist[i].y
        /\ dhist[i].mode = ehist[i].mode
        /\ dhist[i].run = ehist[i].run
        /\ dhist[i].pred = ehist[i].pred

(* C37: with near >= 1, after encode and decode have run, the input frame  *)
(* as the encoder has overwritten it is byte for byte the frame the        *)
(* decoder produces, and predictions and run-mode decisions are the same   *)
(* on both sides at every pixel.                                           *)
ClosedLoop ==
    (test.kind = "t87" /\ test.lossy >= 1 /\ pc = "t87_done") =>
        /\ test.de.frame = test.en.frame
        /\ SameDecisions

(* the same for the streams that reach the decoder *)
ClosedLoopDelivered ==
    (test.kind = "t87" /\ test.lossy >= 1 /\ pc = "t87_done"
        /\ test.stream # <<>>) =>
        /\ test.de.frame = test.en.frame
        /\ SameDecisions

(* a frame that the encoder has changed, with a run in it, decoded *)
ClosedLoopDeliveredSeen ==
    /\ test.kind = "t87" /\ test.lossy >= 1 /\ pc = "t87_done"
    /\ test.stream # <<>>
    /\ test.en.frame # data
    /\ \E i \in 1..Len(dhist) : dhist[i].run > 0
    /\ \E i \in 1..Len(dhist) : dhist[i].run = 0 /\ dhist[i].mode

----------------------------------------------------------------------------
(* The context index of the T.87 encoder (src/unnamed/part_003).           *)
CONTEXTS == 365

(* a map whose zero-gradient block starts one index too low *)
ctx_map_buckets_low(Q1, Q2, Q3) ==
    IF Q1 = 0
    THEN IF Q2 = 0 THEN 359 + Q3 ELSE 324 + (Q2 - 1) * 9 + (Q3 + 4)
    ELSE (Q1 - 1) * 81 + (Q2 + 4) * 9 + (Q3 + 4)

ctx_map_buckets(Q1, Q2, Q3) ==
    IF Q1 = 0
    THEN IF Q2 = 0 THEN 360 + Q3 ELSE 324 + (Q2 - 1) * 9 + (Q3 + 4)
    ELSE (Q1 - 1) * 81 + (Q2 + 4) * 9 + (Q3 + 4)

(* the sign normalisation at the head of encode_prediction: the sign and   *)
(* the gradients the map is given *)
ctx_sign(Q1, Q2, Q3) ==
    IF Q1 < 0 \/ (Q1 = 0 /\ Q2 < 0) \/ (Q1 = 0 /\ Q2 = 0 /\ Q3 < 0)
    THEN [sign |-> -1, Q1 |-> -Q1, Q2 |-> -Q2, Q3 |-> -Q3]
    ELSE [sign |-> 1, Q1 |-> Q1, Q2 |-> Q2, Q3 |-> Q3]

(* int Q = ctx_map_buckets(Q1, Q2, Q3) after the normalisation *)
ctx_index(Q1, Q2, Q3) ==
    LET n == ctx_sign(Q1, Q2, Q3)
    IN  ctx_map_buckets(n.Q1, n.Q2, n.Q3)

(* the values ctx_quantize returns *)
Quantized == -4..4

CtxInit ==
    /\ pc = "ctx"
    /\ debug = TRUE
    /\ data = <<>> /\ w = 0 /\ h = 0
    /\ max_bytes = 8
    /\ NotStarted
    /\ \E Q1 \in Quantized, Q2 \in Quantized, Q3 \in Quantized :
        test = [kind |-> "ctx", Q1 |-> Q1, Q2 |-> Q2, Q3 |-> Q3,
                n |-> [sign |-> 0, Q1 |-> 0, Q2 |-> 0, Q3 |-> 0], Q |-> -1]

(* encode_prediction up to context_t * ctx = &c->contexts[Q] *)
CtxApply ==
    /\ pc = "ctx"
    /\ test' = [test EXCEPT !.n = ctx_sign(test.Q1, test.Q2, test.Q3),
                            !.Q = ctx_index(test.Q1, test.Q2, test.Q3)]
    /\ pc' = "ctx_done"
    /\ UNCHANGED <<inVars, encVars, decVars, hres>>

SpecCtx == CtxInit /\ [][CtxApply]_vars

(* C38: for all quantized gradients in -4..4 the index that                *)
(* ctx_map_buckets returns after the sign normalisation of                 *)
(* encode_prediction is in 0..364, inside the contexts array, and no other *)
(* normalised triple has the same index.                                   *)
ContextIndex ==
    (test.kind = "ctx" /\ pc = "ctx_done") =>
        /\ test.Q \in 0..(CONTEXTS - 1)
        /\ \A Q1 \in Quantized, Q2 \in Quantized, Q3 \in Quantized :
            ctx_index(Q1, Q2, Q3) = test.Q =>
                ctx_sign(Q1, Q2, Q3).Q1 = test.n.Q1
                /\ ctx_sign(Q1, Q2, Q3).Q2 = test.n.Q2
                /\ ctx_sign(Q1, Q2, Q3).Q3 = test.n.Q3

(* a triple that the normalisation has negated, mapped to the last index   *)
ContextIndexWitness ==
    /\ test.kind = "ctx" /\ pc = "ctx_done"
    /\ test.Q1 = 0 /\ test.Q2 = 0 /\ test.Q3 = -4
    /\ test.n.sign = -1 /\ test.n.Q3 = 4
    /\ test.Q = CONTEXTS - 1

====
